---- MODULE Spec2Model ----
(***************************************************************************)
(* A model of the cronwtf cron expression engine: the field parser, the    *)
(* expression parser, the next-occurrence scheduler, the comparator and    *)
(* the natural-language generator.  Strings are TLA+ strings handled       *)
(* character by character; instants are whole seconds since the Unix       *)
(* epoch.                                                                  *)
(***************************************************************************)
EXTENDS Integers, Sequences, FiniteSets, TLC

(***************************************************************************)
(* JavaScript string primitives.                                           *)
(***************************************************************************)

Char(s, i) == SubSeq(s, i, i)

Digits == "0123456789"
UpperAlpha == "ABCDEFGHIJKLMNOPQRSTUVWXYZ"
LowerAlpha == "abcdefghijklmnopqrstuvwxyz"

RECURSIVE IndexIn(_, _, _)
\* 1-based position of the character c in alphabet at or after i, 0 if absent.
IndexIn(c, alphabet, i) ==
  IF i > Len(alphabet) THEN 0
  ELSE IF Char(alphabet, i) = c THEN i
  ELSE IndexIn(c, alphabet, i + 1)

IsDigit(c) == IndexIn(c, Digits, 1) > 0
DigitVal(c) == IndexIn(c, Digits, 1) - 1
IsSpace(c) == c = " "
\* \w of a regular expression: letters, digits and the underscore.
IsWordChar(c) ==
  \/ IndexIn(c, LowerAlpha, 1) > 0
  \/ IndexIn(c, UpperAlpha, 1) > 0
  \/ IsDigit(c)
  \/ c = "_"

LowerChar(c) ==
  LET k == IndexIn(c, UpperAlpha, 1)
  IN  IF k = 0 THEN c ELSE Char(LowerAlpha, k)

RECURSIVE toLowerCase(_)
toLowerCase(s) ==
  IF Len(s) = 0 THEN ""
  ELSE LowerChar(Char(s, 1)) \o toLowerCase(SubSeq(s, 2, Len(s)))

RECURSIVE TrimStart(_)
TrimStart(s) ==
  IF Len(s) > 0 /\ IsSpace(Char(s, 1)) THEN TrimStart(SubSeq(s, 2, Len(s))) ELSE s

RECURSIVE TrimEnd(_)
TrimEnd(s) ==
  IF Len(s) > 0 /\ IsSpace(Char(s, Len(s))) THEN TrimEnd(SubSeq(s, 1, Len(s) - 1)) ELSE s

trim(s) == TrimEnd(TrimStart(s))

\* s.startsWith(p) at 1-based position i.
StartsWithAt(s, p, i) ==
  /\ i >= 1
  /\ i + Len(p) - 1 <= Len(s)
  /\ SubSeq(s, i, i + Len(p) - 1) = p

startsWith(s, p) == StartsWithAt(s, p, 1)

RECURSIVE IndexOfFrom(_, _, _)
\* 1-based position of the first occurrence of p in s at or after i, 0 if none.
IndexOfFrom(s, p, i) ==
  IF i + Len(p) - 1 > Len(s) THEN 0
  ELSE IF StartsWithAt(s, p, i) THEN i
  ELSE IndexOfFrom(s, p, i + 1)

includes(s, p) == IndexOfFrom(s, p, 1) > 0

\* The pieces of s.split(sep), k being the position of the first separator.
RECURSIVE split(_, _)
SplitAt(s, sep, k) ==
  IF k = 0 THEN <<s>>
  ELSE <<SubSeq(s, 1, k - 1)>> \o split(SubSeq(s, k + 1, Len(s)), sep)

\* s.split(sep) for a one-character separator.
split(s, sep) == SplitAt(s, sep, IndexOfFrom(s, sep, 1))

RECURSIVE SplitSpaces(_)
\* The pieces of s.split(/\s+/), k being the position of the first space.
SplitSpacesAt(s, k) ==
  IF k = 0 THEN <<s>>
  ELSE <<SubSeq(s, 1, k - 1)>> \o SplitSpaces(TrimStart(SubSeq(s, k + 1, Len(s))))

\* s.split(/\s+/): runs of white space separate the pieces.
SplitSpaces(s) == SplitSpacesAt(s, IndexOfFrom(s, " ", 1))

RECURSIVE replaceAll(_, _, _)
ReplaceAt(s, name, value, k) ==
  IF k = 0 THEN s
  ELSE SubSeq(s, 1, k - 1) \o value \o
       replaceAll(SubSeq(s, k + Len(name), Len(s)), name, value)

\* s.replace(new RegExp(name, 'g'), value) for a literal name.
replaceAll(s, name, value) == ReplaceAt(s, name, value, IndexOfFrom(s, name, 1))

RECURSIVE join(_, _)
join(parts, sep) ==
  IF Len(parts) = 0 THEN ""
  ELSE IF Len(parts) = 1 THEN parts[1]
  ELSE parts[1] \o sep \o join(Tail(parts), sep)

(***************************************************************************)
(* JavaScript numbers.  NaN stands for the not-a-number value: every       *)
(* ordering comparison with it is false and arithmetic with it yields it.  *)
(***************************************************************************)

NaN == -999999999

Lt(a, b) == a # NaN /\ b # NaN /\ a < b
Gt(a, b) == a # NaN /\ b # NaN /\ a > b
Le(a, b) == a # NaN /\ b # NaN /\ a <= b
Ge(a, b) == a # NaN /\ b # NaN /\ a >= b
Plus(a, b) == IF a = NaN \/ b = NaN THEN NaN ELSE a + b

RECURSIVE DigitRun(_, _)
\* Length of the run of decimal digits of s starting at position i.
DigitRun(s, i) ==
  IF i <= Len(s) /\ IsDigit(Char(s, i)) THEN 1 + DigitRun(s, i + 1) ELSE 0

RECURSIVE DigitsValue(_, _)
\* The value of the decimal digit string s, acc being the value read so far.
DigitsValue(s, acc) ==
  IF Len(s) = 0 THEN acc
  ELSE DigitsValue(SubSeq(s, 2, Len(s)), 10 * acc + DigitVal(Char(s, 1)))

\* The number a sign and the text after it stand for: its longest run of
\* leading digits, NaN when there is none.
SignedValue(neg, body, n) ==
  IF n = 0 THEN NaN
  ELSE IF neg THEN 0 - DigitsValue(SubSeq(body, 1, n), 0)
  ELSE DigitsValue(SubSeq(body, 1, n), 0)

ParseSigned(neg, body) == SignedValue(neg, body, DigitRun(body, 1))

ParseTrimmed(t) ==
  IF Len(t) > 0 /\ (Char(t, 1) = "-" \/ Char(t, 1) = "+")
  THEN ParseSigned(Char(t, 1) = "-", SubSeq(t, 2, Len(t)))
  ELSE ParseSigned(FALSE, t)

\* parseInt(s, 10): leading white space, an optional sign, then the longest
\* run of digits; NaN when there is no digit.
parseInt(s) == ParseTrimmed(TrimStart(s))

RECURSIVE NatToString(_)
NatToString(n) ==
  IF n < 10 THEN Char(Digits, n + 1)
  ELSE NatToString(n \div 10) \o Char(Digits, (n % 10) + 1)

\* Number.prototype.toString for the integers and NaN.
toString(n) ==
  IF n = NaN THEN "NaN"
  ELSE IF n < 0 THEN "-" \o NatToString(0 - n)
  ELSE NatToString(n)

(***************************************************************************)
(* core/parser: field definitions, aliases, parseField and parse.          *)
(***************************************************************************)

FIELD_ORDER == <<"minute", "hour", "dayOfMonth", "month", "dayOfWeek">>

FIELDS ==
  [minute     |-> [name |-> "minute", min |-> 0, max |-> 59, names |-> <<>>],
   hour       |-> [name |-> "hour", min |-> 0, max |-> 23, names |-> <<>>],
   dayOfMonth |-> [name |-> "dayOfMonth", min |-> 1, max |-> 31, names |-> <<>>],
   month      |-> [name |-> "month", min |-> 1, max |-> 12,
                   names |-> <<"jan", "feb", "mar", "apr", "may", "jun",
                               "jul", "aug", "sep", "oct", "nov", "dec">>],
   dayOfWeek  |-> [name |-> "dayOfWeek", min |-> 0, max |-> 7,
                   names |-> <<"sun", "mon", "tue", "wed", "thu", "fri", "sat">>]]

FIELD_NAMES ==
  [minute |-> "minute", hour |-> "hour", dayOfMonth |-> "day of month",
   month |-> "month", dayOfWeek |-> "day of week"]

ALIASESWeeklyOnMonday ==
  [a \in {"@yearly", "@annually", "@monthly", "@weekly", "@daily", "@midnight",
          "@hourly", "@reboot"} |->
     CASE a = "@yearly"   -> "0 0 1 1 *"
       [] a = "@annually" -> "0 0 1 1 *"
       [] a = "@monthly"  -> "0 0 1 * *"
       [] a = "@weekly"   -> "0 0 * * 1"
       [] a = "@daily"    -> "0 0 * * *"
       [] a = "@midnight" -> "0 0 * * *"
       [] a = "@hourly"   -> "0 * * * *"
       [] OTHER           -> "null"]

\* The alias table in declaration order; @reboot maps to null.
Null == "null"
AliasKeys ==
  <<"@yearly", "@annually", "@monthly", "@weekly", "@daily", "@midnight",
    "@hourly", "@reboot">>
ALIASES ==
  [a \in {AliasKeys[k] : k \in 1..Len(AliasKeys)} |->
     CASE a = "@yearly"   -> "0 0 1 1 *"
       [] a = "@annually" -> "0 0 1 1 *"
       [] a = "@monthly"  -> "0 0 1 * *"
       [] a = "@weekly"   -> "0 0 * * 0"
       [] a = "@daily"    -> "0 0 * * *"
       [] a = "@midnight" -> "0 0 * * *"
       [] a = "@hourly"   -> "0 * * * *"
       [] OTHER           -> Null]

SeqRange(q) == {q[k] : k \in 1..Len(q)}

\* The elements of `all` that no earlier element equals, in order.
Distinct(all) ==
  SelectSeq([k \in 1..Len(all) |-> k],
            LAMBDA k : \A j \in 1..(k - 1) : all[j] # all[k])

Pick(all, kept) == [n \in 1..Len(kept) |-> all[kept[n]]]

Deduplicate(all) == Pick(all, Distinct(all))

\* Set.prototype.add of each item in turn, the set being kept in insertion
\* order: an item is appended unless an earlier element equals it.
AddAll(values, items) == Deduplicate(values \o items)

\* The values the counter of `for (let i = start; i <= end; i += stepNum)`
\* takes in the loop body, in order, for a loop that ends: no pass when the
\* first test fails (NaN included), one pass when the step is NaN.
LoopCounter(start, end, stepNum) ==
  IF ~Le(start, end) THEN <<>>
  ELSE IF stepNum = NaN THEN <<start>>
  ELSE [k \in 1..((end - start) \div stepNum + 1) |-> start + (k - 1) * stepNum]

RECURSIVE NormalizeNames(_, _, _)
\* names.forEach: replace every occurrence of the k-th name by its number,
\* one name after the other.
NormalizeNames(field, def, k) ==
  IF k > Len(def.names) THEN field
  ELSE NormalizeNames(
         replaceAll(field, def.names[k],
                    toString(IF def.name = "dayOfWeek" THEN k - 1 ELSE k)),
         def, k + 1)

\* const [range, step] = segment.split('/');
\* const stepNum = step ? parseInt(step, 10) : 1  ('' is falsy, '0' is not)
HasStep(pieces) == Len(pieces) >= 2 /\ Len(pieces[2]) > 0
StepNum(pieces) == IF HasStep(pieces) THEN parseInt(pieces[2]) ELSE 1

RangeValuesKeepSeven(counter, def) == counter

\* The values of a range after the test `i >= min && i <= max` and the
\* replacement of 7 by 0 in dayOfWeek.
RangeValues(counter, def) ==
  [k \in 1..Len(counter) |->
     IF counter[k] = 7 /\ def.name = "dayOfWeek" THEN 0 ELSE counter[k]]

\* for (let i = min; i <= max; i += stepNum) values.add(i)
StarLoop(min, max, stepNum, values) ==
  AddAll(values, LoopCounter(min, max, stepNum))

\* for (let i = start; i <= end; i += stepNum)
\*   if (i >= min && i <= max) values.add(i === 7 && dayOfWeek ? 0 : i)
RangeLoop(start, end, stepNum, def, values) ==
  AddAll(values,
         RangeValues(SelectSeq(LoopCounter(start, end, stepNum),
                               LAMBDA i : i >= def.min /\ i <= def.max), def))

\* The branch `range === '*'`.
ParseStar(acc, def, stepNum, hasStep) ==
  [acc EXCEPT
     !.values = StarLoop(def.min, def.max, stepNum, acc.values),
     !.parts = Append(acc.parts,
                      IF hasStep THEN "every " \o toString(stepNum) ELSE "every")]

OutOfRange(v, def) == Lt(v, def.min) \/ Gt(v, def.max)

\* The branch `range.includes('-')`, start and end being the parsed bounds.
ParseRange(acc, def, start, end, stepNum, hasStep) ==
  [values |-> RangeLoop(start, end, stepNum, def, acc.values),
   outOfRange |-> acc.outOfRange \o
                  (IF OutOfRange(start, def) THEN <<start>> ELSE <<>>) \o
                  (IF OutOfRange(end, def) THEN <<end>> ELSE <<>>),
   parts |-> Append(acc.parts,
                    toString(start) \o "-" \o toString(end) \o
                    (IF hasStep THEN " every " \o toString(stepNum) ELSE ""))]

\* The branch of a single value.
ParseSingle(acc, def, originalVal) ==
  IF \/ Lt(originalVal, def.min)
     \/ Gt(originalVal, def.max) /\ ~(def.name = "dayOfWeek" /\ originalVal = 7)
  THEN [acc EXCEPT !.outOfRange = Append(acc.outOfRange, originalVal),
                   !.parts = Append(acc.parts, toString(originalVal))]
  ELSE [acc EXCEPT
          !.values = AddAll(acc.values,
                            <<IF originalVal = 7 /\ def.name = "dayOfWeek"
                              THEN 0 ELSE originalVal>>),
          !.parts = Append(acc.parts, toString(originalVal))]

ParseBody(acc, def, range, stepNum, hasStep) ==
  IF range = "*" THEN ParseStar(acc, def, stepNum, hasStep)
  ELSE IF includes(range, "-")
  THEN ParseRange(acc, def, parseInt(split(range, "-")[1]),
                  parseInt(split(range, "-")[2]), stepNum, hasStep)
  ELSE ParseSingle(acc, def, parseInt(range))

\* One pass of the for-of loop over the segments: acc holds values, parts
\* and outOfRange.
ParseSegment(acc, segment, def) ==
  ParseBody(acc, def, Head(split(segment, "/")), StepNum(split(segment, "/")),
            HasStep(split(segment, "/")))

RECURSIVE ParseSegments(_, _, _)
ParseSegments(acc, segments, def) ==
  IF Len(segments) = 0 THEN acc
  ELSE ParseSegments(ParseSegment(acc, Head(segments), def), Tail(segments), def)

\* The value loop of a segment never ends: it is entered and its counter
\* does not grow (the step is a number that is not positive).
BodyDiverges(range, stepNum) ==
  /\ stepNum # NaN
  /\ stepNum <= 0
  /\ \/ range = "*"
     \/ /\ includes(range, "-")
        /\ Le(parseInt(split(range, "-")[1]), parseInt(split(range, "-")[2]))

SegmentDiverges(segment) ==
  BodyDiverges(Head(split(segment, "/")), StepNum(split(segment, "/")))

\* The least and the greatest of a non-empty set of numbers.
Least(S) == CHOOSE v \in S : \A w \in S : v <= w
Greatest(S) == CHOOSE v \in S : \A w \in S : v >= w

Between(lo, hi, S) == SelectSeq([k \in 1..(hi - lo + 1) |-> lo + k - 1], LAMBDA v : v \in S)

AscendingSet(S) == Between(Least(S), Greatest(S), S)

\* The numbers of q in ascending order, q holding no NaN and no duplicate.
Ascending(q) == IF Len(q) = 0 THEN <<>> ELSE AscendingSet(SeqRange(q))

AroundNaN(values, p) ==
  Ascending(SubSeq(values, 1, p - 1)) \o <<NaN>> \o
  Ascending(SubSeq(values, p + 1, Len(values)))

\* Array.from(values).sort((a, b) => a - b).  A comparison with NaN yields
\* NaN, which sort takes as "equal"; the order of an array holding NaN next
\* to numbers is then implementation-defined, and the model takes the order
\* of an insertion sort: NaN stays between what was added before and after it.
SortNumbers(values) ==
  IF NaN \notin SeqRange(values) THEN Ascending(values)
  ELSE AroundNaN(values, CHOOSE k \in 1..Len(values) : values[k] = NaN)

Segments(field, def) == split(NormalizeNames(toLowerCase(field), def, 1), ",")

\* parseField(field, def) does not return: one of its segments loops forever.
FieldDiverges(field, def) ==
  \E segment \in SeqRange(Segments(field, def)) : SegmentDiverges(segment)

FieldResult(field, acc) ==
  [values |-> SortNumbers(acc.values),
   raw |-> field,
   description |-> join(acc.parts, ", "),
   outOfRange |-> acc.outOfRange]

\* parseField(field, def), for a field on which it returns.
parseField(field, def) ==
  FieldResult(field,
              ParseSegments([values |-> <<>>, outOfRange |-> <<>>, parts |-> <<>>],
                            Segments(field, def), def))

(***************************************************************************)
(* parse(expression).  A JavaScript property that is absent reads as       *)
(* Undefined (isReboot, only tested for truth, as FALSE); fields is Null   *)
(* for @reboot.                                                            *)
(***************************************************************************)

Undefined == "undefined"

\* The five field texts parse hands to parseField: with six parts the first
\* (seconds) is dropped.
FieldTexts(parts) == IF Len(parts) = 6 THEN Tail(parts) ELSE parts

FieldIndex(fieldName) == CHOOSE k \in 1..Len(FIELD_ORDER) : FIELD_ORDER[k] = fieldName

\* parts.length < 5 || parts.length > 6
BadFieldCount(parts) == Len(parts) < 5 \/ Len(parts) > 6

\* The part of parse after the alias check does not return: parseField
\* loops forever on a field.
FieldsDiverge(expression) ==
  LET parts == SplitSpaces(trim(expression))
  IN  /\ ~BadFieldCount(parts)
      /\ \E k \in 1..Len(FIELD_ORDER) :
           FieldDiverges(FieldTexts(parts)[k], FIELDS[FIELD_ORDER[k]])

\* `${FIELD_NAMES[fieldName]}: values out of range (${outOfRange.join(', ')})`
RangeError(fieldName, outOfRange) ==
  FIELD_NAMES[fieldName] \o ": values out of range (" \o
  join([j \in 1..Len(outOfRange) |-> toString(outOfRange[j])], ", ") \o ")"

\* The errors of the fields, bad being the fields with out-of-range values.
RangeErrors(parsedFields, bad) ==
  [k \in 1..Len(bad) |-> RangeError(bad[k], parsedFields[bad[k]].outOfRange)]

ParseResult(expression, parsedFields, errors) ==
  [valid |-> Len(errors) = 0,
   error |-> Undefined,
   suggestion |-> Undefined,
   errors |-> IF Len(errors) > 0 THEN errors ELSE Undefined,
   fields |-> parsedFields,
   isReboot |-> FALSE,
   original |-> expression]

CollectFirstError(expression, parsedFields) ==
  ParseResult(expression, parsedFields,
              RangeErrors(parsedFields,
                          SelectSeq(FIELD_ORDER,
                                    LAMBDA f :
                                      /\ Len(parsedFields[f].outOfRange) > 0
                                      /\ \A k \in 1..(FieldIndex(f) - 1) :
                                           Len(parsedFields[FIELD_ORDER[k]].outOfRange) = 0)))

CollectErrors(expression, parsedFields) ==
  ParseResult(expression, parsedFields,
              RangeErrors(parsedFields,
                          SelectSeq(FIELD_ORDER,
                                    LAMBDA f : Len(parsedFields[f].outOfRange) > 0)))

\* FIELD_ORDER.forEach: every field is parsed, the errors are collected.
ParseTexts(expression, fields) ==
  CollectErrors(expression,
                [f \in SeqRange(FIELD_ORDER) |->
                   parseField(fields[FieldIndex(f)], FIELDS[f])])

\* The part of parse after the alias check, parts being the pieces of the
\* trimmed text.
ParseParts(expression, parts) ==
  IF BadFieldCount(parts)
  THEN [valid |-> FALSE,
        error |-> "Invalid field count: expected 5, got " \o toString(Len(parts)),
        suggestion |-> "Format: minute hour day-of-month month day-of-week",
        errors |-> Undefined, fields |-> Undefined, isReboot |-> FALSE,
        original |-> Undefined]
  ELSE ParseTexts(expression, FieldTexts(parts))

\* ALIASES[alias] is truthy: the alias is known and is not @reboot.
HasExpansion(alias) == alias \in DOMAIN ALIASES /\ alias # "@reboot"

\* The branch `trimmed.startsWith('@')`, alias being the text in lower
\* case; parse(ALIASES[alias]) reads an expansion, which is no alias.
ParseAlias(alias) ==
  IF alias = "@reboot"
  THEN [valid |-> TRUE, error |-> Undefined, suggestion |-> Undefined,
        errors |-> Undefined, fields |-> Null, isReboot |-> TRUE,
        original |-> Undefined]
  ELSE IF HasExpansion(alias)
  THEN ParseParts(ALIASES[alias], SplitSpaces(trim(ALIASES[alias])))
  ELSE [valid |-> FALSE,
        error |-> "Unknown alias: " \o alias,
        suggestion |-> "Valid aliases: " \o join(AliasKeys, ", "),
        errors |-> Undefined, fields |-> Undefined, isReboot |-> FALSE,
        original |-> Undefined]

\* parse(expression), for a text on which it returns.  isReboot, a property
\* only tested for truth, is FALSE where the code leaves it out.
parse(expression) ==
  IF startsWith(trim(expression), "@")
  THEN ParseAlias(toLowerCase(trim(expression)))
  ELSE ParseParts(expression, SplitSpaces(trim(expression)))

\* parse(expression) does not return.
parseDiverges(expression) ==
  IF startsWith(trim(expression), "@")
  THEN /\ HasExpansion(toLowerCase(trim(expression)))
       /\ FieldsDiverge(ALIASES[toLowerCase(trim(expression))])
  ELSE FieldsDiverge(expression)

(***************************************************************************)
(* The calendar behind luxon's DateTime: an instant is a number of seconds *)
(* since 1970-01-01T00:00:00Z, a zone gives the offset of local time in    *)
(* minutes.                                                                *)
(***************************************************************************)

SecondsPerMinute == 60
SecondsPerDay == 86400

\* The offset (minutes east of UTC) of the zone at instant t.  In 2024 New
\* York keeps daylight saving time from 2024-03-10T07:00Z (1710054000) to
\* 2024-11-03T06:00Z (1730613600).
ZoneOffset(zone, t) ==
  CASE zone = "UTC" -> 0
    [] zone = "Asia/Kolkata" -> 330
    [] zone = "America/New_York" ->
         IF t >= 1710054000 /\ t < 1730613600 THEN -240 ELSE -300

\* The civil date of the day that lies `days` days after 1970-01-01.
CivilFromDays(days) ==
  LET z == days + 719468
      era == z \div 146097
      doe == z - era * 146097
      yoe == (doe - doe \div 1460 + doe \div 36524 - doe \div 146096) \div 365
      doy == doe - (365 * yoe + yoe \div 4 - yoe \div 100)
      mp == (5 * doy + 2) \div 153
      d == doy - (153 * mp + 2) \div 5 + 1
      m == IF mp < 10 THEN mp + 3 ELSE mp - 9
  IN  [year |-> yoe + era * 400 + (IF m <= 2 THEN 1 ELSE 0), month |-> m, day |-> d]

\* The local calendar fields of instant t in the zone: luxon's minute, hour,
\* day, month and weekday (1 = Monday .. 7 = Sunday).
LocalFields(t, zone) ==
  LET local == t + SecondsPerMinute * ZoneOffset(zone, t)
      days == local \div SecondsPerDay
      civil == CivilFromDays(days)
  IN  [minute |-> (local \div 60) % 60,
       hour |-> (local \div 3600) % 24,
       day |-> civil.day,
       month |-> civil.month,
       weekday |-> ((days + 3) % 7) + 1]

\* FirstCandidate without the step to the next minute: the walk would start
\* at the minute `from` lies in.
FirstCandidateAtFrom(from) == from - (from % SecondsPerMinute)

\* DateTime.fromJSDate(from, {zone}).plus({minutes: 1}).startOf('minute').
\* Zone offsets are whole minutes, so the local minute starts where the UTC
\* minute does.
FirstCandidate(from) ==
  LET t == from + SecondsPerMinute
  IN  t - (t % SecondsPerMinute)

(***************************************************************************)
(* getNextOccurrences: the test of one candidate minute.                   *)
(***************************************************************************)

\* Array.prototype.includes
Includes(values, v) == v \in SeqRange(values)

\* current.weekday % 7: luxon's 1 = Monday .. 7 = Sunday onto 0 = Sunday.
WeekdayToCron(weekday) == weekday % 7

\* DayMatch asking for both day fields when both are restricted.
DayMatchBoth(fields, dayOfMonth, dayOfWeek) ==
  /\ fields.dayOfMonth.raw = "*" \/ Includes(fields.dayOfMonth.values, dayOfMonth)
  /\ fields.dayOfWeek.raw = "*" \/ Includes(fields.dayOfWeek.values, dayOfWeek)

DayMatch(fields, dayOfMonth, dayOfWeek) ==
  LET domAll == fields.dayOfMonth.raw = "*"
      dowAll == fields.dayOfWeek.raw = "*"
  IN  IF domAll /\ dowAll THEN TRUE
      ELSE IF domAll THEN Includes(fields.dayOfWeek.values, dayOfWeek)
      ELSE IF dowAll THEN Includes(fields.dayOfMonth.values, dayOfMonth)
      ELSE \/ Includes(fields.dayOfMonth.values, dayOfMonth)
           \/ Includes(fields.dayOfWeek.values, dayOfWeek)

\* minuteMatch && hourMatch && dayMatch && monthMatch for the candidate t.
Matches(fields, t, zone) ==
  LET c == LocalFields(t, zone)
  IN  /\ Includes(fields.minute.values, c.minute)
      /\ Includes(fields.hour.values, c.hour)
      /\ DayMatch(fields, c.day, WeekdayToCron(c.weekday))
      /\ Includes(fields.month.values, c.month)

(***************************************************************************)
(* commands/test: cronMatchesTime(parsed, dt), dt being the calendar       *)
(* fields of a luxon DateTime.                                             *)
(***************************************************************************)

\* dayMatch asking for both day fields when both are restricted.
TestDayMatchBoth(fields, dayOfMonth, dayOfWeek) ==
  LET domAll == fields.dayOfMonth.raw = "*"
      dowAll == fields.dayOfWeek.raw = "*"
  IN  CASE domAll /\ dowAll -> TRUE
        [] domAll /\ ~dowAll -> dayOfWeek \in SeqRange(fields.dayOfWeek.values)
        [] ~domAll /\ dowAll -> dayOfMonth \in SeqRange(fields.dayOfMonth.values)
        [] OTHER -> /\ dayOfMonth \in SeqRange(fields.dayOfMonth.values)
                    /\ dayOfWeek \in SeqRange(fields.dayOfWeek.values)

\* dayMatch of cronMatchesTime: either day field when both are restricted.
TestDayMatch(fields, dayOfMonth, dayOfWeek) ==
  LET domAll == fields.dayOfMonth.raw = "*"
      dowAll == fields.dayOfWeek.raw = "*"
  IN  CASE domAll /\ dowAll -> TRUE
        [] domAll /\ ~dowAll -> dayOfWeek \in SeqRange(fields.dayOfWeek.values)
        [] ~domAll /\ dowAll -> dayOfMonth \in SeqRange(fields.dayOfMonth.values)
        [] OTHER -> \/ dayOfMonth \in SeqRange(fields.dayOfMonth.values)
                    \/ dayOfWeek \in SeqRange(fields.dayOfWeek.values)

cronMatchesTime(p, dt) ==
  IF ~p.valid \/ p.isReboot THEN FALSE
  ELSE /\ dt.minute \in SeqRange(p.fields.minute.values)
       /\ dt.hour \in SeqRange(p.fields.hour.values)
       /\ TestDayMatch(p.fields, dt.day, dt.weekday % 7)
       /\ dt.month \in SeqRange(p.fields.month.values)

\* maxIterations with the days left out: a ceiling of one day of minutes.
maxIterationsOneDay == 24 * 60

\* const maxIterations = 366 * 24 * 60
maxIterations == 366 * 24 * 60

(***************************************************************************)
(* The state: one call of an entry point of the engine, from its call to   *)
(* its return.                                                             *)
(***************************************************************************)

VARIABLES
  op,           \* the entry point that was called, "none" before the call
  pc,           \* "idle", "walk" (in the scheduler's loop), "done", "threw", "hung"
  expression,   \* getNextOccurrences: the expression argument
  count,        \* getNextOccurrences: the count argument
  from,         \* getNextOccurrences: options.from
  timezone,     \* getNextOccurrences: options.timezone
  parsed,       \* getNextOccurrences: const parsed
  current,      \* getNextOccurrences: let current
  iterations,   \* getNextOccurrences: let iterations
  occurrences,  \* getNextOccurrences: const occurrences
  result,       \* the value the entry point returned
  pf,           \* parseField: its locals, one record
  cmp,          \* compare: its locals, one record
  text,         \* generate: the text argument
  usage,        \* the usage file: usage.operations, a count for each day
  today,        \* the day getTodayKey() gives
  run,          \* the command line: each process's command and position
  original      \* the converter: the expression whose conversion is handed on

vars ==
  <<op, pc, expression, count, from, timezone, parsed, current, iterations,
    occurrences, result, pf, cmp, text, usage, today, run, original>>

\* The locals of getNextOccurrences.
walk == <<expression, count, from, timezone, parsed, current, iterations, occurrences>>

\* The state of the command line and of its usage file.
quota == <<usage, today, run>>

None == "none"

\* The days the model's clock goes through, numbered from the first.
MaxDay == 1
Days == 0..MaxDay

\* The command-line processes that run at the same time.
Procs == {1, 2}

\* readUsage() with no usage file: { operations: {} }; a day without an
\* entry counts 0 (usage.operations[today] || 0).
NoUsage == [d \in Days |-> 0]

\* A process that runs no command.
NotRunning ==
  [pc |-> "idle", command |-> None, e |-> None, file |-> NoUsage, key |-> 0,
   code |-> 0, refused |-> FALSE]

Init ==
  /\ op = None
  /\ pc = "idle"
  /\ expression = None
  /\ count = 0
  /\ from = 0
  /\ timezone = None
  /\ parsed = None
  /\ current = 0
  /\ iterations = 0
  /\ occurrences = <<>>
  /\ result = None
  /\ pf = None
  /\ cmp = None
  /\ text = None
  /\ usage = NoUsage
  /\ today = 0
  /\ run = [p \in Procs |-> NotRunning]
  /\ original = None

(***************************************************************************)
(* The inputs the model draws from.                                        *)
(***************************************************************************)

\* The largest count asked of getNextOccurrences.
MaxCount == 2

\* Expression texts: every minute, steps, lists, names, the day clause with
\* one, both and neither day field a wildcard, aliases, six fields, @reboot,
\* invalid texts and a step of 0.
Expressions ==
  {"* * * * *", "*/15 * * * *", "0,30 * * * *", "58 23 * * *",
   "* * * * 1-5", "0 9 * * 1-5", "* * * * 0,1", "*/30 * 1 * *",
   "0 */6 1 * 1", "0 */12 1 * mon", "*/10 * * OCT *", "@hourly", "@Daily",
   "0 */10 * * * *", "@reboot", "invalid", "0 25 * * *", "@every",
   "*/0 * * * *"}

\* Expressions walked across the end of daylight saving time.
DstExpressions == {"30 1 * * *", "*/20 * * * 1-5"}

\* Start instants with their zones: 2024-09-29T23:58:30Z (a Sunday; the
\* next day is Monday the 30th, the day after it the 1st) in UTC and in
\* Asia/Kolkata (there Monday, 05:28:30), and 2024-09-30T00:00:00Z, a minute
\* boundary.
Clocks ==
  {<<1727654310, "UTC">>, <<1727654400, "UTC">>, <<1727654310, "Asia/Kolkata">>}

\* 2024-11-03T05:29:59Z: Sunday, 01:29:59 in New York, half an hour before
\* daylight saving time ends there.
DstClocks == {<<1730611799, "America/New_York">>}

\* The instants handed to cronMatchesTime: those above, 2024-10-01T00:00:00Z
\* (a Tuesday, the 1st) and five minutes later.
TestClocks == Clocks \cup {<<1727740800, "UTC">>, <<1727741100, "UTC">>}

\* The calls of getNextOccurrences the model makes: <<expression, clock>>.
Scenarios == (Expressions \X Clocks) \cup (DstExpressions \X DstClocks)

\* A walk that runs into the ceiling: '0 0 29 2 *' from 2023-03-01T00:00:30Z
\* finds 2024-02-29 and nothing more within 366 days.
CeilingScenarios == {<<"0 0 29 2 *", <<1677628830, "UTC">>>>}

(***************************************************************************)
(* getNextOccurrences(expression, count, {timezone, from})                 *)
(***************************************************************************)

\* LoopCondition letting one occurrence too many in.
LoopConditionOneMore(occ, n, iters) == Len(occ) <= n /\ iters < maxIterations

\* while (occurrences.length < count && iterations < maxIterations)
LoopCondition(occ, n, iters) == Len(occ) < n /\ iters < maxIterations

\* The call returns [] at once: !parsed.valid || parsed.isReboot.
ReturnsEmpty(p) == ~p.valid \/ p.isReboot

\* The call with a valid timed expression, p being parse(e): up to the loop.
EnterLoop(e, n, f, z, p) ==
  /\ ~ReturnsEmpty(p)
  /\ op' = "getNextOccurrences"
  /\ expression' = e
  /\ count' = n
  /\ from' = f
  /\ timezone' = z
  /\ parsed' = p
  /\ current' = FirstCandidate(f)
  /\ iterations' = 0
  /\ occurrences' = <<>>
  /\ pc' = "walk"
  /\ UNCHANGED <<quota, original, result, pf, cmp, text>>

GetNextOccurrencesCall(e, n, f, z) ==
  /\ pc = "idle"
  /\ ~parseDiverges(e)
  /\ EnterLoop(e, n, f, z, parse(e))

\* The call on an invalid expression or @reboot, p being parse(e): return [].
ReturnEmpty(e, n, f, z, p) ==
  /\ ReturnsEmpty(p)
  /\ op' = "getNextOccurrences"
  /\ expression' = e
  /\ count' = n
  /\ from' = f
  /\ timezone' = z
  /\ parsed' = p
  /\ result' = <<>>
  /\ pc' = "done"
  /\ UNCHANGED <<quota, original, current, iterations, occurrences, pf, cmp, text>>

GetNextOccurrencesEmpty(e, n, f, z) ==
  /\ pc = "idle"
  /\ ~parseDiverges(e)
  /\ ReturnEmpty(e, n, f, z, parse(e))

\* The call on an expression parse never returns from.
GetNextOccurrencesHang(e, n, f, z) ==
  /\ pc = "idle"
  /\ parseDiverges(e)
  /\ op' = "getNextOccurrences"
  /\ expression' = e
  /\ count' = n
  /\ from' = f
  /\ timezone' = z
  /\ pc' = "hung"
  /\ UNCHANGED <<quota, original, parsed, current, iterations, occurrences, result, pf, cmp, text>>

\* One pass of the loop body.
WalkStep ==
  /\ pc = "walk"
  /\ LoopCondition(occurrences, count, iterations)
  /\ iterations' = iterations + 1
  /\ occurrences' = IF Matches(parsed.fields, current, timezone)
                    THEN Append(occurrences, current)
                    ELSE occurrences
  /\ current' = current + SecondsPerMinute
  /\ UNCHANGED <<quota, original, op, pc, expression, count, from, timezone, parsed, result,
                 pf, cmp, text>>

\* The loop ends: return occurrences.
GetNextOccurrencesReturn ==
  /\ pc = "walk"
  /\ op = "getNextOccurrences"
  /\ ~LoopCondition(occurrences, count, iterations)
  /\ result' = occurrences
  /\ pc' = "done"
  /\ UNCHANGED <<quota, original, op, walk, pf, cmp, text>>

\* cronMatchesTime(parse(e), dt), dt being the instant t in the zone z: the
\* caller holds the parse result, so e is a text parse returns from.
CronMatchesTimeCall(e, t, z) ==
  /\ pc = "idle"
  /\ ~parseDiverges(e)
  /\ op' = "cronMatchesTime"
  /\ expression' = e
  /\ parsed' = parse(e)
  /\ current' = t
  /\ timezone' = z
  /\ result' = cronMatchesTime(parsed', LocalFields(t, z))
  /\ pc' = "done"
  /\ UNCHANGED <<quota, original, count, from, iterations, occurrences, pf, cmp,
                 text>>

Next ==
  \/ \E sc \in Scenarios, n \in 0..MaxCount :
       \/ GetNextOccurrencesCall(sc[1], n, sc[2][1], sc[2][2])
       \/ GetNextOccurrencesEmpty(sc[1], n, sc[2][1], sc[2][2])
       \/ GetNextOccurrencesHang(sc[1], n, sc[2][1], sc[2][2])
  \/ WalkStep
  \/ GetNextOccurrencesReturn
  \/ \E e \in Expressions, c \in TestClocks : CronMatchesTimeCall(e, c[1], c[2])

Spec == Init /\ [][Next]_vars

\* The scheduler on the walks that run into the ceiling of iterations.
NextCeiling ==
  \/ \E sc \in CeilingScenarios :
       GetNextOccurrencesCall(sc[1], MaxCount, sc[2][1], sc[2][2])
  \/ WalkStep
  \/ GetNextOccurrencesReturn

SpecCeiling == Init /\ [][NextCeiling]_vars

(***************************************************************************)
(* parseField(field, def), one pass of its loops at a time.  pf holds its  *)
(* locals: the segments and the index k of the one at hand, the sets       *)
(* collected so far (acc), and the counter i, bound end and step stepNum   *)
(* of the value loop.                                                      *)
(***************************************************************************)

\* Field texts: wildcards, steps (0 among them), ranges, lists and names.
FieldInputs ==
  {"*", "*/5", "*/20,3", "*/0", "1-10/0", "1-10/2", "1-5", "mon-fri", "7",
   "0,30", "jan", "5-1/0", "60", "2/0"}

ParseFieldCall(field, fieldName) ==
  /\ pc = "idle"
  /\ op' = "parseField"
  /\ pf' = [field |-> field,
            def |-> fieldName,
            segments |-> Segments(field, FIELDS[fieldName]),
            k |-> 1,
            acc |-> [values |-> <<>>, outOfRange |-> <<>>, parts |-> <<>>],
            range |-> "",
            hasStep |-> FALSE,
            stepNum |-> 1,
            i |-> 0,
            end |-> 0]
  /\ pc' = "segment"
  /\ UNCHANGED <<quota, original, walk, result, cmp, text>>

\* The range branch up to its loop: the bounds are parsed and tested.
EnterRange(frame, def, start, end) ==
  [frame EXCEPT
     !.acc.outOfRange = @ \o (IF OutOfRange(start, def) THEN <<start>> ELSE <<>>)
                          \o (IF OutOfRange(end, def) THEN <<end>> ELSE <<>>),
     !.i = start,
     !.end = end]

\* The head of a pass of the for-of loop, pieces being segment.split('/').
EnterSegment(frame, def, pieces) ==
  IF pieces[1] = "*"
  THEN [frame EXCEPT !.range = "*", !.hasStep = HasStep(pieces),
                     !.stepNum = StepNum(pieces), !.i = def.min, !.end = def.max]
  ELSE EnterRange([frame EXCEPT !.range = pieces[1],
                                !.hasStep = HasStep(pieces),
                                !.stepNum = StepNum(pieces)],
                  def, parseInt(split(pieces[1], "-")[1]),
                  parseInt(split(pieces[1], "-")[2]))

\* A segment with a value loop: up to the loop's first test.
SegmentLoopStart ==
  /\ pc = "segment"
  /\ op = "parseField"
  /\ pf.k <= Len(pf.segments)
  /\ \/ Head(split(pf.segments[pf.k], "/")) = "*"
     \/ includes(Head(split(pf.segments[pf.k], "/")), "-")
  /\ pf' = EnterSegment(pf, FIELDS[pf.def], split(pf.segments[pf.k], "/"))
  /\ pc' = "loop"
  /\ UNCHANGED <<quota, original, op, walk, result, cmp, text>>

\* A segment of a single value.
SegmentSingle ==
  /\ pc = "segment"
  /\ op = "parseField"
  /\ pf.k <= Len(pf.segments)
  /\ Head(split(pf.segments[pf.k], "/")) # "*"
  /\ ~includes(Head(split(pf.segments[pf.k], "/")), "-")
  /\ pf' = [pf EXCEPT
              !.acc = ParseSingle(@, FIELDS[pf.def],
                                  parseInt(Head(split(pf.segments[pf.k], "/")))),
              !.k = @ + 1]
  /\ UNCHANGED <<quota, original, op, pc, walk, result, cmp, text>>

\* The body of a value loop on counter i.
LoopBody(values, range, def, i) ==
  IF range = "*" THEN AddAll(values, <<i>>)
  ELSE IF i >= def.min /\ i <= def.max
  THEN AddAll(values, <<IF i = 7 /\ def.name = "dayOfWeek" THEN 0 ELSE i>>)
  ELSE values

\* One pass of a value loop: the test holds, the body runs, i += stepNum.
LoopPass ==
  /\ pc = "loop"
  /\ Le(pf.i, pf.end)
  /\ pf' = [pf EXCEPT
              !.acc.values = LoopBody(@, pf.range, FIELDS[pf.def], pf.i),
              !.i = Plus(@, pf.stepNum)]
  /\ UNCHANGED <<quota, original, op, pc, walk, result, cmp, text>>

\* The text pushed on parts after a value loop.
LoopPart(frame) ==
  IF frame.range = "*"
  THEN (IF frame.hasStep THEN "every " \o toString(frame.stepNum) ELSE "every")
  ELSE toString(parseInt(split(frame.range, "-")[1])) \o "-" \o
       toString(parseInt(split(frame.range, "-")[2])) \o
       (IF frame.hasStep THEN " every " \o toString(frame.stepNum) ELSE "")

\* The test of a value loop fails: push the part, on to the next segment.
LoopExit ==
  /\ pc = "loop"
  /\ ~Le(pf.i, pf.end)
  /\ pf' = [pf EXCEPT !.acc.parts = Append(@, LoopPart(pf)), !.k = @ + 1]
  /\ pc' = "segment"
  /\ UNCHANGED <<quota, original, op, walk, result, cmp, text>>

\* No segment is left: return.
ParseFieldReturn ==
  /\ pc = "segment"
  /\ op = "parseField"
  /\ pf.k > Len(pf.segments)
  /\ result' = FieldResult(pf.field, pf.acc)
  /\ pc' = "done"
  /\ UNCHANGED <<quota, original, op, walk, pf, cmp, text>>

NextField ==
  \/ \E field \in FieldInputs, fieldName \in SeqRange(FIELD_ORDER) :
       ParseFieldCall(field, fieldName)
  \/ SegmentLoopStart
  \/ SegmentSingle
  \/ LoopPass
  \/ LoopExit
  \/ ParseFieldReturn

SpecField == Init /\ [][NextField]_vars

(***************************************************************************)
(* describe(expression)                                                    *)
(***************************************************************************)

\* Array.prototype.join on numbers.
JoinNumbers(values) == join([k \in 1..Len(values) |-> toString(values[k])], ", ")

\* values.map(v => table[v]).join(', '), the table being indexed from
\* `base`; an index outside the table (7, NaN) reads undefined, which join
\* writes as the empty string.
Names(values, table, base) ==
  [k \in 1..Len(values) |->
     IF values[k] - base + 1 \in 1..Len(table) THEN table[values[k] - base + 1]
     ELSE ""]

monthNames ==
  <<"", "January", "February", "March", "April", "May", "June", "July",
    "August", "September", "October", "November", "December">>

dayNames ==
  <<"Sunday", "Monday", "Tuesday", "Wednesday", "Thursday", "Friday", "Saturday">>

\* raw.split('/')[1], which is undefined when the text ends in no step.
StepText(pieces) == IF Len(pieces) >= 2 THEN pieces[2] ELSE Undefined

DescribeMinute(f) ==
  IF f.raw = "*" THEN <<"Every minute">>
  ELSE IF Len(f.values) = 1 THEN <<"At minute " \o toString(f.values[1])>>
  ELSE IF includes(f.raw, "/")
  THEN <<"Every " \o StepText(split(f.raw, "/")) \o " minutes">>
  ELSE <<"At minutes " \o JoinNumbers(f.values)>>

\* `at ${h12}${ampm}` for the single hour h.
HourText(h) ==
  "at " \o toString(IF h = 0 THEN 12 ELSE IF Gt(h, 12) THEN h - 12 ELSE h)
        \o (IF Ge(h, 12) THEN "PM" ELSE "AM")

DescribeHour(f) ==
  IF f.raw = "*" THEN <<>>
  ELSE IF Len(f.values) = 1 THEN <<HourText(f.values[1])>>
  ELSE IF includes(f.raw, "/")
  THEN <<"every " \o StepText(split(f.raw, "/")) \o " hours">>
  ELSE <<"during hours " \o JoinNumbers(f.values)>>

DescribeDayOfMonth(f) ==
  IF f.raw = "*" THEN <<>>
  ELSE IF Len(f.values) = 1 THEN <<"on day " \o toString(f.values[1])>>
  ELSE <<"on days " \o JoinNumbers(f.values)>>

DescribeMonth(f) ==
  IF f.raw = "*" THEN <<>>
  ELSE <<"in " \o join(Names(f.values, monthNames, 0), ", ")>>

DescribeDayNames(names) ==
  IF Len(names) = 1 THEN <<"on " \o names[1]>>
  ELSE IF /\ Len(names) = 5
          /\ "Saturday" \notin SeqRange(names)
          /\ "Sunday" \notin SeqRange(names)
  THEN <<"on weekdays">>
  ELSE IF /\ Len(names) = 2
          /\ "Saturday" \in SeqRange(names)
          /\ "Sunday" \in SeqRange(names)
  THEN <<"on weekends">>
  ELSE <<"on " \o join(names, ", ")>>

DescribeDayOfWeek(f) ==
  IF f.raw = "*" THEN <<>> ELSE DescribeDayNames(Names(f.values, dayNames, 0))

DescribeFields(fields) ==
  join(DescribeMinute(fields.minute) \o DescribeHour(fields.hour) \o
       DescribeDayOfMonth(fields.dayOfMonth) \o DescribeMonth(fields.month) \o
       DescribeDayOfWeek(fields.dayOfWeek), " ")

\* `Invalid: ${parsed.error || parsed.errors?.join(', ')}`
DescribeInvalid(p) ==
  "Invalid: " \o (IF p.error # Undefined THEN p.error ELSE join(p.errors, ", "))

\* describe, p being parse(expression).
DescribeParsed(p) ==
  IF ~p.valid THEN DescribeInvalid(p)
  ELSE IF p.isReboot THEN "Run once at system startup"
  ELSE DescribeFields(p.fields)

describe(e) == DescribeParsed(parse(e))

(***************************************************************************)
(* compare(expr1, expr2).  cmp holds its locals.  Its two calls of         *)
(* getNextOccurrences run the loop above, one pass at a time, from the     *)
(* instant the clock shows at each call and in the zone of the machine.    *)
(***************************************************************************)

\* getNextOccurrences(expr, 10)
CompareCount == 10

\* Pairs of expressions: the same text twice, an alias and its expansion,
\* equal value sets written differently (with and without a wildcard day
\* field), different schedules, invalid texts, @reboot and a step of 0.
ComparePairs ==
  {<<"*/15 * * * *", "*/15 * * * *">>, <<"@hourly", "0 * * * *">>,
   <<"*/20 * * * *", "0,20,40 * * * *">>, <<"* * * * 1-5", "* * * * mon-fri">>,
   <<"* * * * 1", "* * 1-31 * 1">>, <<"* * * * *", "*/15 * * * *">>,
   <<"invalid", "* * * * *">>, <<"* * * * *", "0 25 * * *">>,
   <<"@reboot", "@reboot">>, <<"@reboot", "* * * * *">>,
   <<"* * * * *", "@reboot">>, <<"*/0 * * * *", "* * * * *">>,
   <<"* * * * *", "1-10/0 * * * *">>}

\* The seconds that may pass between the two readings of the clock.
CompareDelays == {0, 45}

\* vals1.length === vals2.length && vals1.every(v => set2.has(v))
SameValues(vals1, vals2) ==
  Len(vals1) = Len(vals2) /\ \A k \in 1..Len(vals1) : vals1[k] \in SeqRange(vals2)

\* The fields compare finds equal, and those it finds different.
SameFields(fields1, fields2) ==
  SelectSeq(FIELD_ORDER, LAMBDA f : SameValues(fields1[f].values, fields2[f].values))

DifferentFields(fields1, fields2) ==
  SelectSeq(FIELD_ORDER, LAMBDA f : ~SameValues(fields1[f].values, fields2[f].values))

\* differences.push({field, first, second}) for each different field.
Differences(different, fields1, fields2) ==
  [k \in 1..Len(different) |->
     [field |-> FIELD_NAMES[different[k]],
      first |-> fields1[different[k]].raw,
      second |-> fields2[different[k]].raw]]

Similarities(same) == [k \in 1..Len(same) |-> FIELD_NAMES[same[k]]]

\* parsed.fields[fieldName] throws a TypeError: fields is null.
FieldsAreNull(p) == p.isReboot

\* `First expression invalid: ${parsed1.error}`, or the second
CompareError(p1, p2) ==
  IF ~p1.valid THEN "First expression invalid: " \o p1.error
  ELSE "Second expression invalid: " \o p2.error

\* The locals once both expressions are parsed and their fields compared.
CompareFrame(e1, e2, p1, p2) ==
  [expr1 |-> e1, expr2 |-> e2,
   differences |-> Differences(DifferentFields(p1.fields, p2.fields),
                               p1.fields, p2.fields),
   similarities |-> Similarities(SameFields(p1.fields, p2.fields)),
   stage |-> 1, from1 |-> 0, from2 |-> 0, next1 |-> <<>>, next2 |-> <<>>]

\* getNextOccurrences(e, 10) from the instant `now`, p being parse(e): up to
\* its loop.  Both expressions are valid and timed here.
CompareWalk(e, p, now, zone) ==
  /\ expression' = e
  /\ count' = CompareCount
  /\ from' = now
  /\ timezone' = zone
  /\ parsed' = p
  /\ current' = FirstCandidate(now)
  /\ iterations' = 0
  /\ occurrences' = <<>>

\* compare on two texts parse returns from, p1 and p2 being their parses.
CompareParsed(e1, e2, p1, p2, now, zone) ==
  IF ~p1.valid \/ ~p2.valid
  THEN /\ result' = [valid |-> FALSE, error |-> CompareError(p1, p2)]
       /\ pc' = "done"
       /\ cmp' = [expr1 |-> e1, expr2 |-> e2]
       /\ UNCHANGED walk
  ELSE IF FieldsAreNull(p1) \/ FieldsAreNull(p2)
  THEN /\ pc' = "thrown"
       /\ cmp' = [expr1 |-> e1, expr2 |-> e2]
       /\ UNCHANGED <<walk, result>>
  ELSE /\ cmp' = [CompareFrame(e1, e2, p1, p2) EXCEPT !.from1 = now]
       /\ CompareWalk(e1, p1, now, zone)
       /\ pc' = "walk"
       /\ UNCHANGED result

CompareCall(e1, e2, now, zone) ==
  /\ pc = "idle"
  /\ ~parseDiverges(e1)
  /\ ~parseDiverges(e2)
  /\ op' = "compare"
  /\ CompareParsed(e1, e2, parse(e1), parse(e2), now, zone)
  /\ UNCHANGED <<quota, original, pf, text>>

\* compare on texts of which parse never returns from one.
CompareHang(e1, e2) ==
  /\ pc = "idle"
  /\ parseDiverges(e1) \/ parseDiverges(e2)
  /\ op' = "compare"
  /\ cmp' = [expr1 |-> e1, expr2 |-> e2]
  /\ pc' = "hung"
  /\ UNCHANGED <<quota, original, walk, result, pf, text>>

\* The first walk ends: next1 is its list, and the second call begins.
CompareSecondWalk(delay) ==
  /\ pc = "walk"
  /\ op = "compare"
  /\ cmp.stage = 1
  /\ ~LoopCondition(occurrences, count, iterations)
  /\ cmp' = [cmp EXCEPT !.next1 = occurrences, !.stage = 2, !.from2 = from + delay]
  /\ CompareWalk(cmp.expr2, parse(cmp.expr2), from + delay, timezone)
  /\ UNCHANGED <<quota, original, op, pc, result, pf, text>>

\* next1.filter(d1 => next2.some(d2 => Math.abs(d1 - d2) < 60000)).length
Overlap(next1, next2) ==
  Len(SelectSeq(next1,
                LAMBDA d1 : \E k \in 1..Len(next2) :
                              /\ d1 - next2[k] < SecondsPerMinute
                              /\ next2[k] - d1 < SecondsPerMinute))

CompareResult(frame, next2) ==
  [valid |-> TRUE,
   same |-> Len(frame.differences) = 0,
   differences |-> frame.differences,
   similarities |-> frame.similarities,
   overlap |-> Overlap(frame.next1, next2),
   descriptions |-> [first |-> describe(frame.expr1),
                     second |-> describe(frame.expr2)]]

\* The second walk ends: compare returns.
CompareReturn ==
  /\ pc = "walk"
  /\ op = "compare"
  /\ cmp.stage = 2
  /\ ~LoopCondition(occurrences, count, iterations)
  /\ cmp' = [cmp EXCEPT !.next2 = occurrences]
  /\ result' = CompareResult(cmp, occurrences)
  /\ pc' = "done"
  /\ UNCHANGED <<quota, original, op, walk, pf, text>>

NextCompare ==
  \/ \E pair \in ComparePairs, clock \in Clocks :
       \/ CompareCall(pair[1], pair[2], clock[1], clock[2])
       \/ CompareHang(pair[1], pair[2])
  \/ WalkStep
  \/ \E delay \in CompareDelays : CompareSecondWalk(delay)
  \/ CompareReturn

SpecCompare == Init /\ [][NextCompare]_vars

(***************************************************************************)
(* The generator (core/generator): regular expressions.  A match is the    *)
(* sequence of its captured groups, <<>> when there is none; an input is   *)
(* in lower case when it is matched, so the flag i changes nothing.        *)
(***************************************************************************)

RECURSIVE SpaceRun(_, _)
\* Length of the run of white space of s starting at position i.
SpaceRun(s, i) ==
  IF i <= Len(s) /\ IsSpace(Char(s, i)) THEN 1 + SpaceRun(s, i + 1) ELSE 0

RECURSIVE WordRun(_, _)
\* Length of the run of \w characters of s starting at position i.
WordRun(s, i) ==
  IF i <= Len(s) /\ IsWordChar(Char(s, i)) THEN 1 + WordRun(s, i + 1) ELSE 0

\* The position after the white space that starts at i.
AfterSpaces(s, i) == i + SpaceRun(s, i)

\* The leftmost of the positions at which a pattern matches, 0 if none.
Leftmost(positions) ==
  IF positions = {} THEN 0 ELSE CHOOSE i \in positions : \A j \in positions : i <= j

\* every\s+(\d+)\s+<unit> matches at position i.
EveryAt(s, i, unit) ==
  LET d == AfterSpaces(s, i + 5)
  IN  /\ StartsWithAt(s, "every", i)
      /\ SpaceRun(s, i + 5) >= 1
      /\ DigitRun(s, d) >= 1
      /\ SpaceRun(s, d + DigitRun(s, d)) >= 1
      /\ StartsWithAt(s, unit, AfterSpaces(s, d + DigitRun(s, d)))

\* input.match(/every\s+(\d+)\s+minutes?/i), and the same with hours?: the
\* unit is 'minute' or 'hour', the s after it being optional.
MatchEvery(s, unit) ==
  LET i == Leftmost({j \in 1..Len(s) : EveryAt(s, j, unit)})
      d == AfterSpaces(s, i + 5)
  IN  IF i = 0 THEN <<>> ELSE <<SubSeq(s, d, d + DigitRun(s, d) - 1)>>

\* at\s+(\d{1,2}... matches at position i.
AtAt(s, i) ==
  /\ StartsWithAt(s, "at", i)
  /\ SpaceRun(s, i + 2) >= 1
  /\ DigitRun(s, AfterSpaces(s, i + 2)) >= 1

\* The position after \d{1,2} at d.
AfterHour(s, d) == d + (IF DigitRun(s, d) >= 2 THEN 2 ELSE 1)

\* The position after (?::\d{2})? at c.
AfterMinute(s, c) ==
  IF StartsWithAt(s, ":", c) /\ DigitRun(s, c + 1) >= 2 THEN c + 3 ELSE c

\* The position after (?:am|pm)? at a.
AfterAmPm(s, a) ==
  IF StartsWithAt(s, "am", a) \/ StartsWithAt(s, "pm", a) THEN a + 2 ELSE a

\* The position after \d{1,2}(?::\d{2})?\s*(?:am|pm)? at d.
AfterTime(s, d) == AfterAmPm(s, AfterSpaces(s, AfterMinute(s, AfterHour(s, d))))

\* input.match(/at\s+(\d{1,2}(?::\d{2})?\s*(?:am|pm)?)/i)
MatchAt(s) ==
  LET i == Leftmost({j \in 1..Len(s) : AtAt(s, j)})
      d == AfterSpaces(s, i + 2)
  IN  IF i = 0 THEN <<>> ELSE <<SubSeq(s, d, AfterTime(s, d) - 1)>>

(***************************************************************************)
(* parseTime(timeStr): [ok, hour, minute], ok being FALSE for null.        *)
(***************************************************************************)

NoTime == [ok |-> FALSE, hour |-> 0, minute |-> 0]

\* The time when it is in range, null otherwise.
TimeInRange(hour, minute) ==
  IF hour >= 0 /\ hour <= 23 /\ minute >= 0 /\ minute <= 59
  THEN [ok |-> TRUE, hour |-> hour, minute |-> minute]
  ELSE NoTime

AmPmHourNoMidnight(hour, ampm) ==
  IF ampm = "pm" /\ hour < 12 THEN hour + 12 ELSE hour

\* if (ampm === 'pm' && hour < 12) hour += 12;
\* if (ampm === 'am' && hour === 12) hour = 0;
AmPmHour(hour, ampm) ==
  IF ampm = "pm" /\ hour < 12 THEN hour + 12
  ELSE IF ampm = "am" /\ hour = 12 THEN 0
  ELSE hour

\* str.match(/^(\d{1,2})(?::(\d{2}))?\s*(am|pm)?$/i): the hour ends
\* before position h, the minute before m, am or pm starts at a and the
\* string ends after it.  The groups are the hour, the minute or undefined,
\* am, pm or undefined.
Match12(str) ==
  LET h == AfterHour(str, 1)
      m == AfterMinute(str, h)
      a == AfterSpaces(str, m)
  IN  IF ~(DigitRun(str, 1) \in {1, 2} /\ AfterAmPm(str, a) = Len(str) + 1)
      THEN <<>>
      ELSE <<SubSeq(str, 1, h - 1),
             IF m > h THEN SubSeq(str, h + 1, m - 1) ELSE Undefined,
             IF AfterAmPm(str, a) > a THEN SubSeq(str, a, Len(str)) ELSE Undefined>>

\* /^(\d{1,2}):(\d{2})$/
Match24(str) ==
  IF /\ DigitRun(str, 1) \in {1, 2}
     /\ AfterMinute(str, AfterHour(str, 1)) = AfterHour(str, 1) + 3
     /\ AfterHour(str, 1) + 3 = Len(str) + 1
  THEN <<SubSeq(str, 1, AfterHour(str, 1) - 1),
         SubSeq(str, AfterHour(str, 1) + 1, Len(str))>>
  ELSE <<>>

Time24(match24) ==
  IF match24 = <<>> THEN NoTime
  ELSE TimeInRange(parseInt(match24[1]), parseInt(match24[2]))

Time12(match12) ==
  IF match12 = <<>> THEN NoTime
  ELSE TimeInRange(AmPmHour(parseInt(match12[1]), match12[3]),
                   IF match12[2] # Undefined THEN parseInt(match12[2]) ELSE 0)

parseTime(timeStr) ==
  LET str == trim(toLowerCase(timeStr))
      time12 == Time12(Match12(str))
  IN  IF time12.ok THEN time12 ELSE Time24(Match24(str))

(***************************************************************************)
(* generate(text)                                                          *)
(***************************************************************************)

\* The phrase table, in the order of its declaration: <<pattern, cron>>.
PATTERNS ==
  << <<"every minute", "* * * * *">>, <<"every hour", "0 * * * *">>,
     <<"hourly", "0 * * * *">>, <<"every day", "0 0 * * *">>,
     <<"daily", "0 0 * * *">>, <<"every week", "0 0 * * 0">>,
     <<"weekly", "0 0 * * 0">>, <<"every month", "0 0 1 * *">>,
     <<"monthly", "0 0 1 * *">>, <<"every year", "0 0 1 1 *">>,
     <<"yearly", "0 0 1 1 *">>, <<"annually", "0 0 1 1 *">>,
     <<"at midnight", "0 0 * * *">>, <<"midnight", "0 0 * * *">>,
     <<"at noon", "0 12 * * *">>, <<"noon", "0 12 * * *">>,
     <<"weekdays", "0 9 * * 1-5">>, <<"weekends", "0 9 * * 0,6">>,
     <<"every weekday", "0 9 * * 1-5">>, <<"every weekend", "0 9 * * 0,6">>,
     <<"business hours", "0 9-17 * * 1-5">>, <<"work hours", "0 9-17 * * 1-5">> >>

\* The day names, in the order of their declaration: <<name, number>>.
DAYS ==
  << <<"sunday", 0>>, <<"sun", 0>>, <<"monday", 1>>, <<"mon", 1>>,
     <<"tuesday", 2>>, <<"tue", 2>>, <<"wednesday", 3>>, <<"wed", 3>>,
     <<"thursday", 4>>, <<"thu", 4>>, <<"friday", 5>>, <<"fri", 5>>,
     <<"saturday", 6>>, <<"sat", 6>> >>

\* The month names, in the order of their declaration: <<name, number>>.
MONTHS ==
  << <<"january", 1>>, <<"jan", 1>>, <<"february", 2>>, <<"feb", 2>>,
     <<"march", 3>>, <<"mar", 3>>, <<"april", 4>>, <<"apr", 4>>, <<"may", 5>>,
     <<"june", 6>>, <<"jun", 6>>, <<"july", 7>>, <<"jul", 7>>,
     <<"august", 8>>, <<"aug", 8>>, <<"september", 9>>, <<"sep", 9>>,
     <<"october", 10>>, <<"oct", 10>>, <<"november", 11>>, <<"nov", 11>>,
     <<"december", 12>>, <<"dec", 12>> >>

\* table[key]: the position of the entry with that key, 0 for undefined.
KeyIndex(table, key) == Leftmost({k \in 1..Len(table) : table[k][1] = key})

\* `Generated from: "${text}"`
Generated(txt, expr) ==
  [success |-> TRUE, expression |-> expr,
   description |-> "Generated from: \"" \o txt \o "\""]

\* parts[0] = time.minute.toString(); parts[1] = time.hour.toString()
WithTime(parts, time) ==
  join(<<toString(time.minute), toString(time.hour)>> \o SubSeq(parts, 3, Len(parts)), " ")

\* The body of the loop over the phrase table for the entry that matches,
\* PATTERNS[pattern] being the cron of the table's entry with that key.
DirectMatch(txt, input, pattern, cron, timeMatch) ==
  IF /\ timeMatch # <<>>
     /\ cron # PATTERNS[KeyIndex(PATTERNS, pattern)][2]
     /\ parseTime(timeMatch[1]).ok
  THEN Generated(txt, WithTime(split(cron, " "), parseTime(timeMatch[1])))
  ELSE Generated(txt, cron)

\* The first entry of the phrase table the input equals or contains, 0 if
\* none.
DirectIndex(input) ==
  Leftmost({k \in 1..Len(PATTERNS) :
              input = PATTERNS[k][1] \/ includes(input, PATTERNS[k][1])})

\* /every\s+day/i
MatchEveryDay(s) ==
  \E i \in 1..Len(s) :
    /\ StartsWithAt(s, "every", i)
    /\ SpaceRun(s, i + 5) >= 1
    /\ StartsWithAt(s, "day", AfterSpaces(s, i + 5))

\* The first day name whose pattern (every\s+|on\s+)?<name>s? is found:
\* its position in DAYS, 0 if none.
FirstDay(s) == Leftmost({k \in 1..Len(DAYS) : includes(s, DAYS[k][1])})

\* The position of the digits of on\s+(?:the\s+)?(\d{1,2}) for the `on` at
\* position i, 0 when the pattern does not match there.
OnDayDigits(s, i) ==
  IF ~(StartsWithAt(s, "on", i) /\ SpaceRun(s, i + 2) >= 1) THEN 0
  ELSE IF /\ StartsWithAt(s, "the", AfterSpaces(s, i + 2))
          /\ SpaceRun(s, AfterSpaces(s, i + 2) + 3) >= 1
          /\ DigitRun(s, AfterSpaces(s, AfterSpaces(s, i + 2) + 3)) >= 1
  THEN AfterSpaces(s, AfterSpaces(s, i + 2) + 3)
  ELSE IF DigitRun(s, AfterSpaces(s, i + 2)) >= 1 THEN AfterSpaces(s, i + 2)
  ELSE 0

\* input.match(/on\s+(?:the\s+)?(\d{1,2})(?:st|nd|rd|th)?(?:\s+of)?/i)
MatchOnDay(s) ==
  LET i == Leftmost({j \in 1..Len(s) : OnDayDigits(s, j) > 0})
      d == OnDayDigits(s, i)
  IN  IF i = 0 THEN <<>> ELSE <<SubSeq(s, d, AfterHour(s, d) - 1)>>

\* new RegExp(`in\\s+${monthName}`, 'i').test(input)
MonthIn(s, monthName) ==
  \E i \in 1..Len(s) :
    /\ StartsWithAt(s, "in", i)
    /\ SpaceRun(s, i + 2) >= 1
    /\ StartsWithAt(s, monthName, AfterSpaces(s, i + 2))

FirstMonth(s) == Leftmost({k \in 1..Len(MONTHS) : MonthIn(s, MONTHS[k][1])})

\* The length of through, to or - at position c, 0 if none is there.
Connector(s, c) ==
  IF StartsWithAt(s, "through", c) THEN 7
  ELSE IF StartsWithAt(s, "to", c) THEN 2
  ELSE IF StartsWithAt(s, "-", c) THEN 1
  ELSE 0

\* The position of the second word of (\w+)\s+(?:through|to|-)\s+(\w+) when
\* the connector is at c, 0 when there is no match.
RangeSecond(s, c) ==
  IF /\ Connector(s, c) > 0
     /\ SpaceRun(s, c + Connector(s, c)) >= 1
     /\ WordRun(s, AfterSpaces(s, c + Connector(s, c))) >= 1
  THEN AfterSpaces(s, c + Connector(s, c))
  ELSE 0

\* The same for a first word at position i.
RangeAt(s, i) ==
  IF WordRun(s, i) >= 1 /\ SpaceRun(s, i + WordRun(s, i)) >= 1
  THEN RangeSecond(s, AfterSpaces(s, i + WordRun(s, i)))
  ELSE 0

\* input.match(/(\w+)\s+(?:through|to|-)\s+(\w+)/i)
MatchDayRange(s) ==
  LET i == Leftmost({j \in 1..Len(s) : RangeAt(s, j) > 0})
      second == RangeAt(s, i)
  IN  IF i = 0 THEN <<>>
      ELSE <<SubSeq(s, i, i + WordRun(s, i) - 1),
             SubSeq(s, second, second + WordRun(s, second) - 1)>>

\* The fields of the compositional path before any pattern is tried.
NoMatch ==
  [minute |-> "*", hour |-> "*", dayOfMonth |-> "*", month |-> "*",
   dayOfWeek |-> "*", matched |-> FALSE]

\* if (minute === '*') minute = m; if (hour === '*') hour = h; matched = true
Defaults(st, m, h) ==
  [st EXCEPT !.minute = IF @ = "*" THEN m ELSE @,
             !.hour = IF @ = "*" THEN h ELSE @,
             !.matched = TRUE]

\* "every N minutes"
WithEveryMinutes(st, everyMinutes) ==
  IF everyMinutes = <<>> THEN st
  ELSE [st EXCEPT !.minute = "*/" \o everyMinutes[1], !.matched = TRUE]

\* "every N hours"
WithEveryHours(st, everyHours) ==
  IF everyHours = <<>> THEN st
  ELSE [st EXCEPT !.minute = "0", !.hour = "*/" \o everyHours[1], !.matched = TRUE]

\* "at HH:MM" or "at H am/pm"
WithAtTime(st, atTime) ==
  IF atTime = <<>> \/ ~parseTime(atTime[1]).ok THEN st
  ELSE [st EXCEPT !.minute = toString(parseTime(atTime[1]).minute),
                  !.hour = toString(parseTime(atTime[1]).hour),
                  !.matched = TRUE]

\* "every day at..."
WithEveryDay(st, everyDay) == IF everyDay THEN Defaults(st, "0", "0") ELSE st

\* "on monday/tuesday/etc" or "every monday", k being the first day found.
WithDay(st, k) ==
  IF k = 0 THEN st
  ELSE Defaults([st EXCEPT !.dayOfWeek = toString(DAYS[k][2])], "0", "9")

\* "on the 1st/15th/etc" of month
WithDayOfMonth(st, dayOfMonthMatch) ==
  IF /\ dayOfMonthMatch # <<>>
     /\ Ge(parseInt(dayOfMonthMatch[1]), 1)
     /\ Le(parseInt(dayOfMonthMatch[1]), 31)
  THEN Defaults([st EXCEPT !.dayOfMonth = toString(parseInt(dayOfMonthMatch[1]))],
                "0", "0")
  ELSE st

\* "in january/february/etc", k being the first month found.
WithMonth(st, k) ==
  IF k = 0 THEN st
  ELSE [st EXCEPT !.month = toString(MONTHS[k][2]), !.matched = TRUE]

\* "monday through friday" or "monday to friday": start and end are the
\* entries of DAYS the two words name, 0 for undefined.
WithDayRange(st, dayRange) ==
  LET start == KeyIndex(DAYS, toLowerCase(dayRange[1]))
      end == KeyIndex(DAYS, toLowerCase(dayRange[2]))
  IN  IF dayRange = <<>> \/ start = 0 \/ end = 0 THEN st
      ELSE Defaults([st EXCEPT !.dayOfWeek = toString(DAYS[start][2]) \o "-" \o
                                             toString(DAYS[end][2])], "0", "9")

\* The compositional path: the patterns in the order the code tries them.
Compose(input) ==
  WithDayRange(
    WithMonth(
      WithDayOfMonth(
        WithDay(
          WithEveryDay(
            WithAtTime(
              WithEveryHours(
                WithEveryMinutes(NoMatch, MatchEvery(input, "minute")),
                MatchEvery(input, "hour")),
              MatchAt(input)),
            MatchEveryDay(input)),
          FirstDay(input)),
        MatchOnDay(input)),
      FirstMonth(input)),
    MatchDayRange(input))

Composed(txt, st) ==
  IF st.matched
  THEN Generated(txt, st.minute \o " " \o st.hour \o " " \o st.dayOfMonth \o " " \o
                      st.month \o " " \o st.dayOfWeek)
  ELSE [success |-> FALSE,
        error |-> "Could not parse the description",
        suggestion |-> "Try patterns like: \"every 5 minutes\", \"at 3pm on weekdays\", \"every monday at 9am\""]

\* generate(text): the first phrase of the table the input holds decides,
\* the compositional path when there is none.
generate(txt) ==
  LET input == trim(toLowerCase(txt))
      k == DirectIndex(input)
  IN  IF k > 0
      THEN DirectMatch(txt, input, PATTERNS[k][1], PATTERNS[k][2], MatchAt(input))
      ELSE Composed(txt, Compose(input))

\* validate, p being parse(expression).
ValidateParsed(p) ==
  [valid |-> p.valid,
   errors |-> IF p.valid \/ p.error # Undefined THEN <<>> ELSE p.errors,
   suggestion |-> p.suggestion]

(***************************************************************************)
(* The generator and the validation of what it generates.                  *)
(***************************************************************************)

\* Phrases of the table and of the compositional path, with N = 0 among the
\* numbers, and a text that matches nothing.
GeneratePhrases ==
  {"every day", "Daily", "every weekday", "weekends", "at noon", "every month",
   "business hours", "every monday", "every 5 minutes", "every 0 minutes",
   "every 90 minutes", "every 2 hours", "every 0 hours", "on the 15th",
   "on the 1st in january", "monday through friday", "fri to mon",
   "nothing here", " Hourly "}

\* Clauses `at <time>`, with times parseTime accepts and one it rejects.
TimeClauses ==
  {"", " at 3pm", " at 15:30", " at 12am", " at 25:00", " at 9:05 pm", " at 7:60"}

\* Every phrase of the table as it stands, and the examples of the README.
TablePhrases == {PATTERNS[k][1] : k \in 1..Len(PATTERNS)}

ReadmeTexts ==
  {"every 5 minutes", "every monday at 9am", "first day of month at midnight"}

GenerateTexts ==
  {phrase \o clause : phrase \in GeneratePhrases, clause \in TimeClauses}
    \cup TablePhrases \cup ReadmeTexts

\* The texts handed to parseTime: an hour, a minute part or none, white
\* space or none, a half of the day or none, each text with its number.
ClockHours ==
  {<<"0", 0>>, <<"3", 3>>, <<"09", 9>>, <<"11", 11>>, <<"12", 12>>, <<"13", 13>>,
   <<"23", 23>>, <<"24", 24>>, <<"25", 25>>, <<"99", 99>>}
ClockMinutes ==
  {<<"", 0>>, <<":00", 0>>, <<":05", 5>>, <<":30", 30>>, <<":59", 59>>,
   <<":60", 60>>, <<":99", 99>>}
ClockGaps == {"", " "}
ClockHalves == {"", "am", "pm", "PM", "Am"}

\* Texts that are no time.
OtherTimeTexts ==
  {"invalid", "", "3:5", "123", "3:456", "12:30:00", "noon", "3 : 30", "pm",
   "3p", "-3", "3.30", "3pm today"}

TimeTexts ==
  {h[1] \o m[1] \o gap \o half :
     h \in ClockHours, m \in ClockMinutes, gap \in ClockGaps, half \in ClockHalves}
    \cup OtherTimeTexts

ParseTimeCall(timeStr) ==
  /\ pc = "idle"
  /\ op' = "parseTime"
  /\ text' = timeStr
  /\ result' = parseTime(timeStr)
  /\ pc' = "done"
  /\ UNCHANGED <<quota, original, walk, pf, cmp>>

GenerateCall(txt) ==
  /\ pc = "idle"
  /\ op' = "generate"
  /\ text' = txt
  /\ result' = generate(txt)
  /\ pc' = "done"
  /\ UNCHANGED <<quota, original, walk, pf, cmp>>

\* validate(result.expression) on a generated expression.
ValidateGenerated ==
  /\ pc = "done"
  /\ op = "generate"
  /\ result.success
  /\ ~parseDiverges(result.expression)
  /\ op' = "validate"
  /\ expression' = result.expression
  /\ parsed' = parse(result.expression)
  /\ result' = ValidateParsed(parsed')
  /\ UNCHANGED <<quota, original, pc, count, from, timezone, current, iterations, occurrences,
                 pf, cmp, text>>

\* The same on an expression parse never returns from.
ValidateGeneratedHang ==
  /\ pc = "done"
  /\ op = "generate"
  /\ result.success
  /\ parseDiverges(result.expression)
  /\ op' = "validate"
  /\ expression' = result.expression
  /\ pc' = "hung"
  /\ UNCHANGED <<quota, original, count, from, timezone, parsed, current, iterations, occurrences,
                 result, pf, cmp, text>>

NextGenerate ==
  \/ \E txt \in GenerateTexts : GenerateCall(txt)
  \/ \E timeStr \in TimeTexts : ParseTimeCall(timeStr)
  \/ ValidateGenerated
  \/ ValidateGeneratedHang

SpecGenerate == Init /\ [][NextGenerate]_vars

(***************************************************************************)
(* core/converter: toAws and toQuartz.                                     *)
(***************************************************************************)

\* parsed.error || parsed.errors?.join(', ')
ConvertError(p) == IF p.error # Undefined THEN p.error ELSE join(p.errors, ", ")

\* The rule of the two day fields: <<domField, dowField>> after the ifs.
DayFieldsNoDayOfMonthMark(dom, dow) ==
  IF dom = "*" /\ dow = "*" THEN <<dom, "?">>
  ELSE IF dom # "*" /\ dow = "*" THEN <<dom, "?">>
  ELSE <<dom, dow>>

DayFields(dom, dow) ==
  IF dom = "*" /\ dow = "*" THEN <<dom, "?">>
  ELSE IF dom # "*" /\ dow = "*" THEN <<dom, "?">>
  ELSE IF dom = "*" /\ dow # "*" THEN <<"?", dow>>
  ELSE <<dom, dow>>

\* values.map(d => d === 0 ? 1 : d + 1).join(',')
OneBased(values) ==
  join([k \in 1..Len(values) |->
          toString(IF values[k] = 0 THEN 1 ELSE Plus(values[k], 1))], ",")

\* raw.match(/^(\d+)-(\d+)$/)
MatchRange(raw) ==
  LET n == DigitRun(raw, 1)
  IN  IF /\ n >= 1
         /\ n + 2 <= Len(raw)
         /\ Char(raw, n + 1) = "-"
         /\ n + 1 + DigitRun(raw, n + 2) = Len(raw)
      THEN <<SubSeq(raw, 1, n), SubSeq(raw, n + 2, Len(raw))>>
      ELSE <<>>

\* The day of the week in the numbering 1 = Sunday of AWS: a numeric range
\* bound by bound, anything else value by value.
AwsDayOfWeek(field, dowField, rangeMatch) ==
  IF dowField = "*" \/ dowField = "?" THEN dowField
  ELSE IF rangeMatch # <<>>
  THEN OneBased(<<parseInt(rangeMatch[1])>>) \o "-" \o
       OneBased(<<parseInt(rangeMatch[2])>>)
  ELSE OneBased(field.values)

AwsResult(fields, day) ==
  [success |-> TRUE,
   format |-> "aws",
   result |-> "cron(" \o fields.minute.raw \o " " \o fields.hour.raw \o " " \o
              day[1] \o " " \o fields.month.raw \o " " \o
              AwsDayOfWeek(fields.dayOfWeek, day[2], MatchRange(fields.dayOfWeek.raw))
              \o " *)",
   note |-> "AWS CloudWatch Events / EventBridge format (times in UTC)"]

\* toAws, p being parse(expression).
ToAwsParsed(p) ==
  IF ~p.valid THEN [success |-> FALSE, error |-> ConvertError(p)]
  ELSE IF p.isReboot
  THEN [success |-> FALSE, error |-> "AWS does not support @reboot"]
  ELSE AwsResult(p.fields, DayFields(p.fields.dayOfMonth.raw, p.fields.dayOfWeek.raw))

toAws(e) == ToAwsParsed(parse(e))

\* The day of the week of Quartz: always value by value.
QuartzDayOfWeek(field, dowField) ==
  IF dowField = "*" \/ dowField = "?" THEN dowField ELSE OneBased(field.values)

QuartzResult(fields, day) ==
  [success |-> TRUE,
   format |-> "quartz",
   result |-> "0 " \o fields.minute.raw \o " " \o fields.hour.raw \o " " \o
              day[1] \o " " \o fields.month.raw \o " " \o
              QuartzDayOfWeek(fields.dayOfWeek, day[2]),
   note |-> "Quartz Scheduler format (Java). First field is seconds."]

\* toQuartz, p being parse(expression).
ToQuartzParsed(p) ==
  IF ~p.valid THEN [success |-> FALSE, error |-> ConvertError(p)]
  ELSE IF p.isReboot
  THEN [success |-> FALSE, error |-> "Quartz does not support @reboot"]
  ELSE QuartzResult(p.fields,
                    DayFields(p.fields.dayOfMonth.raw, p.fields.dayOfWeek.raw))

toQuartz(e) == ToQuartzParsed(parse(e))

(***************************************************************************)
(* core/converter: toSystemd, toGitHub and fromCron.                       *)
(***************************************************************************)

\* dayNames of toSystemd.
SystemdDayNames == <<"Sun", "Mon", "Tue", "Wed", "Thu", "Fri", "Sat">>

\* The day of the week, pushed unless the field is *.
SystemdDays(field) ==
  IF field.raw # "*" THEN <<join(Names(field.values, SystemdDayNames, 0), ",")>>
  ELSE <<>>

\* values.join(',')
JoinValues(values) == join([k \in 1..Len(values) |-> toString(values[k])], ",")

\* monthPart and dayPart: * or the values of the field.
SystemdDateField(field) == IF field.raw = "*" THEN "*" ELSE JoinValues(field.values)

\* datePart
SystemdDate(fields) ==
  IF fields.month.raw # "*" \/ fields.dayOfMonth.raw # "*"
  THEN "*-" \o SystemdDateField(fields.month) \o "-" \o
       SystemdDateField(fields.dayOfMonth)
  ELSE "*"

\* hourPart and minutePart: *, the raw text of a step, or the values.
SystemdTimeField(field) ==
  IF field.raw = "*" THEN "*"
  ELSE IF includes(field.raw, "/") THEN field.raw
  ELSE JoinValues(field.values)

SystemdResult(fields) ==
  [success |-> TRUE,
   format |-> "systemd",
   result |-> join(SystemdDays(fields.dayOfWeek) \o
                   <<SystemdDate(fields),
                     SystemdTimeField(fields.hour) \o ":" \o
                     SystemdTimeField(fields.minute) \o ":00">>, " "),
   note |-> "Use with OnCalendar= in systemd timer units"]

ToSystemdParsedRejectsReboot(p) ==
  IF ~p.valid THEN [success |-> FALSE, error |-> ConvertError(p)]
  ELSE IF p.isReboot
  THEN [success |-> FALSE, error |-> "systemd does not support @reboot"]
  ELSE SystemdResult(p.fields)

\* toSystemd, p being parse(expression).
ToSystemdParsed(p) ==
  IF ~p.valid THEN [success |-> FALSE, error |-> ConvertError(p)]
  ELSE IF p.isReboot
  THEN [success |-> TRUE, format |-> "systemd", result |-> "@reboot"]
  ELSE SystemdResult(p.fields)

toSystemd(e) == ToSystemdParsed(parse(e))

\* cronExpr of toGitHub: the raw texts of the five fields.
GitHubExpression(fields) ==
  join([k \in 1..5 |-> fields[FIELD_ORDER[k]].raw], " ")

GitHubResult(fields) ==
  [success |-> TRUE,
   format |-> "github",
   result |-> "on:\n  schedule:\n    - cron: '" \o GitHubExpression(fields) \o "'",
   expression |-> GitHubExpression(fields),
   note |-> "GitHub Actions uses UTC timezone"]

\* toGitHub, p being parse(expression).
ToGitHubParsed(p) ==
  IF ~p.valid THEN [success |-> FALSE, error |-> ConvertError(p)]
  ELSE IF p.isReboot
  THEN [success |-> FALSE, error |-> "GitHub Actions does not support @reboot"]
  ELSE GitHubResult(p.fields)

toGitHub(e) == ToGitHubParsed(parse(e))

\* FORMATS: the names of the supported formats.
FORMATS == {"cron", "systemd", "aws", "github", "quartz", "jenkins"}

UnknownFormat(format) == [success |-> FALSE, error |-> "Unknown format: " \o format]

\* fromCron, p being parse(expression): the switch on the format in lower
\* case.
FromCronParsed(p, toFormat) ==
  CASE toLowerCase(toFormat) = "systemd" -> ToSystemdParsed(p)
    [] toLowerCase(toFormat) = "aws" -> ToAwsParsed(p)
    [] toLowerCase(toFormat) = "github" -> ToGitHubParsed(p)
    [] toLowerCase(toFormat) \in {"quartz", "jenkins"} -> ToQuartzParsed(p)
    [] OTHER -> UnknownFormat(toFormat)

\* The cases of fromCron that call a converter, and so parse.
FromCronParses(toFormat) ==
  toLowerCase(toFormat) \in {"systemd", "aws", "github", "quartz", "jenkins"}

fromCron(e, toFormat) ==
  IF FromCronParses(toFormat) THEN FromCronParsed(parse(e), toFormat)
  ELSE UnknownFormat(toFormat)

(***************************************************************************)
(* core/converter: toCron and detectFormat.  The operators that build a    *)
(* result with a description take the flag described: with it the          *)
(* description is describe(standardCron), as in the code; without it the   *)
(* description is left as the expression handed to describe.               *)
(***************************************************************************)

\* awsExpr.match(/cron\s*\(\s*(.+)\s*\)/i) at position i: p is the place of
\* the opening parenthesis, closing the places a closing one can match.
\* (.+) is greedy and ends before the last of them; it starts after the
\* white space that follows the opening parenthesis, or on the last white
\* space when nothing else is in between.
AwsWrapperAt(s, i) ==
  LET p == AfterSpaces(s, i + 4)
      closing == {q \in (p + 2)..Len(s) : Char(s, q) = ")"}
      first == AfterSpaces(s, p + 1)
  IN  IF /\ StartsWithAt(toLowerCase(s), "cron", i)
         /\ p <= Len(s)
         /\ Char(s, p) = "("
         /\ closing # {}
      THEN <<SubSeq(s, IF first < Greatest(closing) THEN first
                       ELSE Greatest(closing) - 1,
                    Greatest(closing) - 1)>>
      ELSE <<>>

MatchAwsWrapper(s) ==
  LET i == Leftmost({j \in 1..Len(s) : AwsWrapperAt(s, j) # <<>>})
  IN  IF i = 0 THEN <<>> ELSE AwsWrapperAt(s, i)

\* dow.split(',').map(d => ...).join(','): a token parseInt reads a number
\* from becomes that number less one, 1 becoming 0.
StandardDayOfWeek(tokens) ==
  join([k \in 1..Len(tokens) |->
          IF parseInt(tokens[k]) = NaN THEN tokens[k]
          ELSE toString(IF parseInt(tokens[k]) = 1 THEN 0
                        ELSE parseInt(tokens[k]) - 1)], ",")

\* The result of a conversion to standardCron.
Converted(standardCron, described, note) ==
  [success |-> TRUE, format |-> "cron", result |-> standardCron,
   description |-> IF described THEN describe(standardCron) ELSE standardCron,
   note |-> note]

\* fromAws after the match, parts being the fields inside the wrapper.
FromAwsParts(parts, described) ==
  IF Len(parts) # 6
  THEN [success |-> FALSE,
        error |-> "Invalid AWS cron: expected 6 fields, got " \o toString(Len(parts))]
  ELSE Converted(parts[1] \o " " \o parts[2] \o " " \o
                 (IF parts[3] = "?" THEN "*" ELSE parts[3]) \o " " \o parts[4] \o " " \o
                 (IF parts[5] = "?" \/ parts[5] = "*" THEN "*"
                  ELSE StandardDayOfWeek(split(parts[5], ","))),
                 described, Undefined)

fromAws(awsExpr, described) ==
  IF MatchAwsWrapper(awsExpr) = <<>>
  THEN [success |-> FALSE, error |-> "Invalid AWS cron format. Expected: cron(...)"]
  ELSE FromAwsParts(SplitSpaces(trim(MatchAwsWrapper(awsExpr)[1])), described)

\* The special cases of fromSystemd: <<expr, cron>>.
SystemdPresets ==
  << <<"minutely", "* * * * *">>, <<"hourly", "0 * * * *">>,
     <<"daily", "0 0 * * *">>, <<"weekly", "0 0 * * 0">>,
     <<"monthly", "0 0 1 * *">>, <<"yearly", "0 0 1 1 *">>,
     <<"annually", "0 0 1 1 *">> >>

\* dayMap of fromSystemd: <<name, number>>.
dayMap ==
  << <<"Sun", 0>>, <<"Mon", 1>>, <<"Tue", 2>>, <<"Wed", 3>>, <<"Thu", 4>>,
     <<"Fri", 5>>, <<"Sat", 6>> >>

\* One pass of the loop of fromSystemd over the parts: st holds dow, dom,
\* month, hour and minute.
FromSystemdPart(st, part) ==
  LET days == SelectSeq(split(part, ","), LAMBDA d : KeyIndex(dayMap, d) > 0)
      dateParts == split(part, "-")
      timeParts == split(part, ":")
  IN  IF \E k \in 1..Len(dayMap) : includes(part, dayMap[k][1])
      THEN IF Len(days) = 0 THEN st
           ELSE [st EXCEPT !.dow =
                   join([k \in 1..Len(days) |->
                           toString(dayMap[KeyIndex(dayMap, days[k])][2])], ",")]
      ELSE IF includes(part, "-") /\ ~includes(part, ":")
      THEN [st EXCEPT
              !.month = IF dateParts[Len(dateParts) - 1] # "*"
                        THEN dateParts[Len(dateParts) - 1] ELSE @,
              !.dom = IF dateParts[Len(dateParts)] # "*"
                      THEN dateParts[Len(dateParts)] ELSE @]
      ELSE IF includes(part, ":")
      THEN [st EXCEPT
              !.hour = IF timeParts[1] # "*" THEN timeParts[1] ELSE @,
              !.minute = IF timeParts[2] # "*" THEN timeParts[2] ELSE @]
      ELSE st

RECURSIVE FromSystemdParts(_, _)
FromSystemdParts(st, parts) ==
  IF Len(parts) = 0 THEN st
  ELSE FromSystemdParts(FromSystemdPart(st, Head(parts)), Tail(parts))

fromSystemd(systemdExpr, described) ==
  LET expr == trim(systemdExpr)
      st == FromSystemdParts([dow |-> "*", dom |-> "*", month |-> "*",
                              hour |-> "*", minute |-> "*"], SplitSpaces(expr))
  IN  IF KeyIndex(SystemdPresets, expr) > 0
      THEN [success |-> TRUE, format |-> "cron",
            result |-> SystemdPresets[KeyIndex(SystemdPresets, expr)][2],
            description |-> Undefined, note |-> Undefined]
      ELSE Converted(st.minute \o " " \o st.hour \o " " \o st.dom \o " " \o
                     st.month \o " " \o st.dow, described,
                     "Conversion is best-effort. Some systemd features may not translate.")

\* The case 'quartz' / 'jenkins' of toCron: the seconds are dropped, the
\* next five parts kept, ? becoming *.
FromQuartzParts(parts, described) ==
  IF Len(parts) = 6 \/ Len(parts) = 7
  THEN Converted(join([k \in 1..5 |-> IF parts[k + 1] = "?" THEN "*"
                                      ELSE parts[k + 1]], " "),
                 described, Undefined)
  ELSE [success |-> FALSE, error |-> "Invalid Quartz/Jenkins format"]

\* toCron(expression, fromFormat).
ToCronWith(e, fromFormat, described) ==
  CASE toLowerCase(fromFormat) = "aws" -> fromAws(e, described)
    [] toLowerCase(fromFormat) = "systemd" -> fromSystemd(e, described)
    [] toLowerCase(fromFormat) \in {"quartz", "jenkins"} ->
         FromQuartzParts(SplitSpaces(trim(e)), described)
    [] OTHER -> [success |-> FALSE, error |-> "Unknown format: " \o fromFormat]

toCron(e, fromFormat) == ToCronWith(e, fromFormat, TRUE)

\* toCron does not return: describe is handed an expression on which parse
\* loops forever.
ToCronDiverges(e, fromFormat) ==
  LET handed == ToCronWith(e, fromFormat, FALSE)
  IN  /\ handed.success
      /\ handed.description # Undefined
      /\ parseDiverges(handed.description)

MatchDateTokenNoSpace(expr) ==
  LET a == WordRun(expr, 1)
      b == WordRun(expr, a + 2)
      c == WordRun(expr, a + b + 3)
  IN  /\ a >= 1 /\ StartsWithAt(expr, "-", a + 1)
      /\ b >= 1 /\ StartsWithAt(expr, "-", a + b + 2)
      /\ c >= 1

\* expr.match(/^\w+-\w+-\w+\s/)
MatchDateToken(expr) ==
  LET a == WordRun(expr, 1)
      b == WordRun(expr, a + 2)
      c == WordRun(expr, a + b + 3)
  IN  /\ a >= 1 /\ StartsWithAt(expr, "-", a + 1)
      /\ b >= 1 /\ StartsWithAt(expr, "-", a + b + 2)
      /\ c >= 1 /\ StartsWithAt(expr, " ", a + b + c + 3)

\* detectFormat(expression); null is Null.
detectFormat(e) ==
  LET expr == trim(e)
      parts == SplitSpaces(expr)
  IN  IF /\ StartsWithAt(toLowerCase(expr), "cron", 1)
         /\ StartsWithAt(expr, "(", AfterSpaces(expr, 5))
      THEN "aws"
      ELSE IF includes(expr, "OnCalendar") \/ MatchDateToken(expr) THEN "systemd"
      ELSE IF Len(parts) = 5 THEN "cron"
      ELSE IF Len(parts) = 6 \/ Len(parts) = 7 THEN "quartz"
      ELSE Null

(***************************************************************************)
(* The converter: one call of toAws, toQuartz, toSystemd, toGitHub,        *)
(* fromCron, toCron or detectFormat, and the result of a successful        *)
(* conversion handed on to toCron or to detectFormat.  expression holds    *)
(* the text converted, text the format handed to toCron or to fromCron,    *)
(* original the expression the text handed on was converted from.          *)
(***************************************************************************)

ConvertDaysOfMonth == {"*", "1", "1,15", "*/2"}
ConvertDaysOfWeek == {"*", "0", "7", "1-5", "5-7", "mon-fri", "1,3", "*/2"}

ConvertExpressions ==
  {"0 9 " \o dom \o " * " \o dow :
     dom \in ConvertDaysOfMonth, dow \in ConvertDaysOfWeek}
    \cup {"@reboot", "@daily", "invalid", "0 25 * * *", "*/0 * * * *",
          "30 0 9 * * 1", " @Reboot ", "* * * * *", "*/15 9-17 * 1,6 *", "5 */2 1 jan-mar 6"}

\* The format names handed to fromCron.
FromCronFormats == FORMATS \cup {"AWS", "Jenkins", "yaml", ""}

\* <<expression, fromFormat>>
ToCronInputs ==
  ({"cron(0 9 ? * 2-6 *)", "cron(0 9 ? * 2,3 *)", "cron(0 9 1 * ? *)",
    "cron(0 9 ? * MON *)", "cron(0 9 ? * 1 *)", "cron(0 9 ? * 7,1 *)",
    "cron(0 9 ? * 1)", "cron(0 9 ? * 1 * 2024)", "0 9 * * 1", "cron()",
    "cron(*/0 9 ? * 1 *)", " CRON ( 0 9 ? * 1 * ) "} \X {"aws", "AWS"})
    \cup {<<"0 0 9 * * ?", "quartz">>, <<"0 0 9 ? * 2 2024", "jenkins">>,
          <<"0 9 * * *", "quartz">>, <<"daily", "systemd">>,
          <<"Mon *-*-1 9:30:00", "systemd">>, <<"something", "unknown">>}

DetectInputs ==
  {"cron(0 9 * * ? *)", "CRON(0 9 * * ? *)", "cron (0 9 * * ? *)", "0 9 * * *",
   " 0 9 * * 1-5 ", "0 0 9 * * ?", "0 0 9 * * ? 2024", "garbage",
   "invalid format", "", "a b c d e f g h", "2024-1-15 9:00:00", "2024-1-15",
   "*-1-15 9:00:00", "OnCalendar=daily", "Mon *-*-* 9:00:00"}

ToAwsCall(e) ==
  /\ pc = "idle"
  /\ ~parseDiverges(e)
  /\ op' = "toAws"
  /\ expression' = e
  /\ parsed' = parse(e)
  /\ result' = ToAwsParsed(parsed')
  /\ pc' = "done"
  /\ UNCHANGED <<quota, original, count, from, timezone, current, iterations, occurrences,
                 pf, cmp, text>>

ToQuartzCall(e) ==
  /\ pc = "idle"
  /\ ~parseDiverges(e)
  /\ op' = "toQuartz"
  /\ expression' = e
  /\ parsed' = parse(e)
  /\ result' = ToQuartzParsed(parsed')
  /\ pc' = "done"
  /\ UNCHANGED <<quota, original, count, from, timezone, current, iterations, occurrences,
                 pf, cmp, text>>

ToSystemdCall(e) ==
  /\ pc = "idle"
  /\ ~parseDiverges(e)
  /\ op' = "toSystemd"
  /\ expression' = e
  /\ parsed' = parse(e)
  /\ result' = ToSystemdParsed(parsed')
  /\ pc' = "done"
  /\ UNCHANGED <<quota, original, count, from, timezone, current, iterations,
                 occurrences, pf, cmp, text>>

ToGitHubCall(e) ==
  /\ pc = "idle"
  /\ ~parseDiverges(e)
  /\ op' = "toGitHub"
  /\ expression' = e
  /\ parsed' = parse(e)
  /\ result' = ToGitHubParsed(parsed')
  /\ pc' = "done"
  /\ UNCHANGED <<quota, original, count, from, timezone, current, iterations,
                 occurrences, pf, cmp, text>>

\* fromCron: a format of the switch calls its converter, which parses the
\* expression; any other format is answered without parsing.
FromCronCall(e, toFormat) ==
  /\ pc = "idle"
  /\ ~(FromCronParses(toFormat) /\ parseDiverges(e))
  /\ op' = "fromCron"
  /\ expression' = e
  /\ text' = toFormat
  /\ result' = fromCron(e, toFormat)
  /\ pc' = "done"
  /\ UNCHANGED <<quota, original, count, from, timezone, parsed, current,
                 iterations, occurrences, pf, cmp>>

FromCronHang(e, toFormat) ==
  /\ pc = "idle"
  /\ FromCronParses(toFormat) /\ parseDiverges(e)
  /\ op' = "fromCron"
  /\ expression' = e
  /\ text' = toFormat
  /\ pc' = "hung"
  /\ UNCHANGED <<quota, original, count, from, timezone, parsed, current,
                 iterations, occurrences, result, pf, cmp>>

\* A converter to a format on an expression parse never returns from.
ConvertHang(name, e) ==
  /\ pc = "idle"
  /\ parseDiverges(e)
  /\ op' = name
  /\ expression' = e
  /\ pc' = "hung"
  /\ UNCHANGED <<quota, original, count, from, timezone, parsed, current, iterations,
                 occurrences, result, pf, cmp, text>>

ToCronCall(e, fromFormat) ==
  /\ pc = "idle"
  /\ ~ToCronDiverges(e, fromFormat)
  /\ op' = "toCron"
  /\ expression' = e
  /\ text' = fromFormat
  /\ result' = toCron(e, fromFormat)
  /\ pc' = "done"
  /\ UNCHANGED <<quota, original, count, from, timezone, parsed, current, iterations,
                 occurrences, pf, cmp>>

ToCronHang(e, fromFormat) ==
  /\ pc = "idle"
  /\ ToCronDiverges(e, fromFormat)
  /\ op' = "toCron"
  /\ expression' = e
  /\ text' = fromFormat
  /\ pc' = "hung"
  /\ UNCHANGED <<quota, original, count, from, timezone, parsed, current, iterations,
                 occurrences, result, pf, cmp>>

DetectFormatCall(e) ==
  /\ pc = "idle"
  /\ op' = "detectFormat"
  /\ expression' = e
  /\ result' = detectFormat(e)
  /\ pc' = "done"
  /\ UNCHANGED <<quota, original, count, from, timezone, parsed, current, iterations,
                 occurrences, pf, cmp, text>>

\* The result of toAws or toQuartz handed to toCron with its format.  The
\* fields of the text are the raw fields of an expression parse returned
\* from, or numbers.
ToCronOfResult ==
  /\ pc = "done"
  /\ op \in {"toAws", "toQuartz"}
  /\ original = None
  /\ result.success
  /\ ~ToCronDiverges(result.result, result.format)
  /\ op' = "toCron"
  /\ original' = expression
  /\ expression' = result.result
  /\ text' = result.format
  /\ result' = toCron(result.result, result.format)
  /\ UNCHANGED <<quota, pc, count, from, timezone, parsed, current, iterations,
                 occurrences, pf, cmp>>

\* What a converter wrote: result.expression of toGitHub, result.result of
\* the others.
Written(name, converted) ==
  IF name = "toGitHub" THEN converted.expression ELSE converted.result

\* The text a converter wrote handed to detectFormat.
DetectFormatOfResult ==
  /\ pc = "done"
  /\ op \in {"toAws", "toQuartz", "toSystemd", "toGitHub"}
  /\ original = None
  /\ result.success
  /\ op' = "detectFormat"
  /\ original' = expression
  /\ expression' = Written(op, result)
  /\ text' = result.format
  /\ result' = detectFormat(Written(op, result))
  /\ UNCHANGED <<quota, pc, count, from, timezone, parsed, current, iterations,
                 occurrences, pf, cmp>>

ConverterNames == {"toAws", "toQuartz", "toSystemd", "toGitHub"}

NextConvert ==
  \/ \E e \in ConvertExpressions : ToAwsCall(e)
  \/ \E e \in ConvertExpressions : ToQuartzCall(e)
  \/ \E e \in ConvertExpressions : ToSystemdCall(e)
  \/ \E e \in ConvertExpressions : ToGitHubCall(e)
  \/ \E e \in ConvertExpressions, name \in ConverterNames : ConvertHang(name, e)
  \/ \E e \in ConvertExpressions, f \in FromCronFormats : FromCronCall(e, f)
  \/ \E e \in ConvertExpressions, f \in FromCronFormats : FromCronHang(e, f)
  \/ \E input \in ToCronInputs : ToCronCall(input[1], input[2])
  \/ \E input \in ToCronInputs : ToCronHang(input[1], input[2])
  \/ \E e \in DetectInputs : DetectFormatCall(e)
  \/ ToCronOfResult
  \/ DetectFormatOfResult

SpecConvert == Init /\ [][NextConvert]_vars

(***************************************************************************)
(* The parser on its own: one call of parse.                               *)
(***************************************************************************)

ParseMinutes == {"0", "*/15", "1,1,5", "50-70", "60", "x"}
ParseHours == {"*", "9-17/2", "25"}
ParseDaysOfWeek == {"*", "7", "5-7", "mon-fri", "0,7", "8", "*/2", "*/7"}

\* Expressions built from *, integers within the range of their field,
\* ranges, lists, steps and names.
WellFormedExpressions ==
  {"* * * * *", "0 0 * * 0", "0 0 * * 7", "0 0 * * 5-7", "0 0 * * 0-7",
   "*/15 0-6 1,15 jan-mar mon-fri", "0 9-17/2 */2 JAN,Jul sun",
   "5,5,1 23 31 12 6,0", "59 0 1-31/10 1-12 1,3,5", "0 12 1 */3 *"}

ParseInputs ==
  {m \o " " \o h \o " * jan " \o d :
     m \in ParseMinutes, h \in ParseHours, d \in ParseDaysOfWeek}
    \cup WellFormedExpressions
    \cup {"@yearly", "@annually", "@monthly", "@weekly", "@daily", "@midnight",
          "@hourly", "@DAILY", " @Hourly ", "@reboot", "@Reboot", "@every",
          "@daily 5", "0 25 * * *", "60 * * * *", "0 0 32 * *", "0 0 * 13 *",
          "0 0 0 * *", "61 24 0 13 9", "99 0 25 * * *", "30 0 9 * * 1",
          "* * * *", "1 2 3 4 5 6 7", "", "*/0 * * * *", "0 1-10/0 * * *"}

ParseCall(e) ==
  /\ pc = "idle"
  /\ ~parseDiverges(e)
  /\ op' = "parse"
  /\ expression' = e
  /\ parsed' = parse(e)
  /\ pc' = "done"
  /\ UNCHANGED <<quota, original, count, from, timezone, current, iterations, occurrences,
                 result, pf, cmp, text>>

\* parse on an expression with a field parseField never returns from.
ParseHang(e) ==
  /\ pc = "idle"
  /\ parseDiverges(e)
  /\ op' = "parse"
  /\ expression' = e
  /\ pc' = "hung"
  /\ UNCHANGED <<quota, original, count, from, timezone, parsed, current, iterations,
                 occurrences, result, pf, cmp, text>>

NextParse ==
  \/ \E e \in ParseInputs : ParseCall(e)
  \/ \E e \in ParseInputs : ParseHang(e)

SpecParse == Init /\ [][NextParse]_vars

(***************************************************************************)
(* license/limits and the metered commands explain, validate, diff and     *)
(* next on the free tier (no license file): each invocation is a process   *)
(* of its own that reads and writes the usage file.  run[p].pc is "check"  *)
(* before checkOperationLimit, "increment" before the readUsage of         *)
(* incrementOperations, "write" before its writeUsage, "done" after the    *)
(* return, when the code returned and whether the limit refused the        *)
(* command are all that is left of it.  With at most seven days in the     *)
(* file incrementOperations deletes no entry.                              *)
(***************************************************************************)

\* The state of the engine, which the command line's steps on the usage
\* file leave alone.
engine == <<original, op, pc, walk, result, pf, cmp, text>>

\* FREE_LIMITS.dailyOperations
dailyOperations == 10

\* <<command, expression>>; diff is handed the expression twice.
Invocations ==
  {<<"explain", "0 9 * * 1-5">>, <<"explain", "0 25 * * *">>,
   <<"validate", "0 9 * * 1-5">>, <<"diff", "0 9 * * 1-5">>,
   <<"diff", "0 25 * * *">>, <<"next", "@reboot">>}

\* The count on the last day modelled after which no command is started.
MaxLastDay == 1

\* The process after the return of its command.
Exited(code, refused) ==
  [NotRunning EXCEPT !.pc = "done", !.code = code, !.refused = refused]

\* checkOperationLimit('free').allowed
Allowed(counted) == counted < dailyOperations

\* The commands that parse the expression between the check of the limit
\* and incrementOperations, and return before it when they can.
ParsesFirst(command) == command \in {"next", "diff"}

\* next and diff return before incrementOperations for an invalid
\* expression, next for @reboot too.
ReturnsEarly(command, p) ==
  /\ ParsesFirst(command)
  /\ ~p.valid \/ (command = "next" /\ p.isReboot)

\* The code of that return: 1 for an invalid expression, 0 for @reboot.
EarlyCode(p) == IF ~p.valid THEN 1 ELSE 0

\* The code returned after incrementOperations: explain and validate
\* report an invalid expression then.
LateCode(command, p) ==
  IF command \in {"explain", "validate"} /\ ~p.valid THEN 1 ELSE 0

\* execute(expression, options) up to the call of checkOperationLimit.
Execute(p, command, e) ==
  /\ run[p].pc \in {"idle", "done"}
  /\ today < MaxDay \/ usage[today] < MaxLastDay
  /\ run' = [run EXCEPT ![p] = [NotRunning EXCEPT !.pc = "check",
                                                  !.command = command, !.e = e]]
  /\ UNCHANGED <<engine, usage, today>>

\* The outcome of the check for a process that read the count counted.
Checked(r, counted) ==
  IF ~Allowed(counted) THEN Exited(1, TRUE)
  ELSE LET p == parse(r.e)
       IN  IF ReturnsEarly(r.command, p) THEN Exited(EarlyCode(p), FALSE)
           ELSE [r EXCEPT !.pc = "increment"]

\* checkOperationLimit(license.tier): getTodayOperations() reads the file;
\* the command returns code 1 when the limit is reached, and next and diff
\* return for an expression they do not run.
CheckOperationLimit(p) ==
  /\ run[p].pc = "check"
  /\ run' = [run EXCEPT ![p] = Checked(run[p], usage[today])]
  /\ UNCHANGED <<engine, usage, today>>

\* incrementOperations(), its readUsage() and getTodayKey().
IncrementRead(p) ==
  /\ run[p].pc = "increment"
  /\ run' = [run EXCEPT ![p].pc = "write", ![p].file = usage, ![p].key = today]
  /\ UNCHANGED <<engine, usage, today>>

\* usage.operations[today] = (usage.operations[today] || 0) + 1 on the
\* data read, writeUsage(usage), and the rest of the command.
IncrementWrite(p) ==
  /\ run[p].pc = "write"
  /\ usage' = [run[p].file EXCEPT ![run[p].key] = @ + 1]
  /\ run' = [run EXCEPT
               ![p] = Exited(LateCode(run[p].command, parse(run[p].e)), FALSE)]
  /\ UNCHANGED <<engine, today>>

\* Midnight UTC: getTodayKey() gives the next day.
NewDay ==
  /\ today < MaxDay
  /\ today' = today + 1
  /\ UNCHANGED <<engine, usage, run>>

NextQuota ==
  \/ \E p \in Procs, i \in Invocations : Execute(p, i[1], i[2])
  \/ \E p \in Procs : CheckOperationLimit(p)
  \/ \E p \in Procs : IncrementRead(p)
  \/ \E p \in Procs : IncrementWrite(p)
  \/ NewDay

SpecQuota == Init /\ [][NextQuota]_vars

(***************************************************************************)
(* Properties of getNextOccurrences.                                       *)
(***************************************************************************)

Returned == pc = "done" /\ op = "getNextOccurrences"

\* C1: the list getNextOccurrences returns is in strictly increasing order
\* and has at most `count` instants; it is empty when the expression is
\* invalid or is @reboot.
C1_IncreasingAtMostCount ==
  Returned =>
    /\ Len(result) <= count
    /\ \A i, j \in 1..Len(result) : i < j => result[i] < result[j]
    /\ (~parsed.valid \/ parsed.isReboot) => result = <<>>

\* A call that returned MaxCount instants, and so more than one.
C1_Witness ==
  /\ Returned
  /\ count = MaxCount
  /\ Len(result) = MaxCount
  /\ result[1] < result[MaxCount]

\* The whole minutes after `from` up to instant `last`, in order.
MinutesAfter(f, last) ==
  [k \in 1..((last \div SecondsPerMinute) - (f \div SecondsPerMinute)) |->
     ((f \div SecondsPerMinute) + k) * SecondsPerMinute]

MatchesIn(candidates, fields, zone) ==
  SelectSeq(candidates, LAMBDA t : Matches(fields, t, zone))

\* C2: every instant returned is a whole minute strictly after `from`, never
\* the minute `from` lies in; the list is exactly the matching minutes from
\* the minute after `from` up to its last instant, none skipped, and it has
\* `count` of them unless the walk ran into its ceiling.
C2_FirstMatchesAfterFrom ==
  (Returned /\ ~ReturnsEmpty(parsed)) =>
    /\ \A k \in 1..Len(result) :
         /\ result[k] > from
         /\ result[k] % SecondsPerMinute = 0
         /\ result[k] \div SecondsPerMinute > from \div SecondsPerMinute
    /\ Len(result) > 0 =>
         result = MatchesIn(MinutesAfter(from, result[Len(result)]),
                            parsed.fields, timezone)
    /\ Len(result) = count \/ iterations = maxIterations

\* `from` is a minute boundary that matches the expression, and the call
\* returned later minutes only.
C2_Witness ==
  /\ Returned
  /\ ~ReturnsEmpty(parsed)
  /\ from % SecondsPerMinute = 0
  /\ Matches(parsed.fields, from, timezone)
  /\ count = MaxCount
  /\ Len(result) = count
  /\ result[1] = from + SecondsPerMinute

\* The day of the week of instant t in the zone, 0 = Sunday .. 6 = Saturday:
\* 1970-01-01 was a Thursday.
CronDayOfWeek(t, zone) ==
  (((t + SecondsPerMinute * ZoneOffset(zone, t)) \div SecondsPerDay) + 4) % 7

\* The POSIX day clause on a candidate's day of month and day of week.
PosixDayClause(fields, dom, dow) ==
  CASE fields.dayOfMonth.raw = "*" /\ fields.dayOfWeek.raw = "*" -> TRUE
    [] fields.dayOfMonth.raw = "*" /\ fields.dayOfWeek.raw # "*" ->
         dow \in SeqRange(fields.dayOfWeek.values)
    [] fields.dayOfMonth.raw # "*" /\ fields.dayOfWeek.raw = "*" ->
         dom \in SeqRange(fields.dayOfMonth.values)
    [] OTHER -> \/ dom \in SeqRange(fields.dayOfMonth.values)
                \/ dow \in SeqRange(fields.dayOfWeek.values)

\* The candidate t matches as the specification words it.
SpecifiedMatch(fields, t, zone) ==
  /\ LocalFields(t, zone).minute \in SeqRange(fields.minute.values)
  /\ LocalFields(t, zone).hour \in SeqRange(fields.hour.values)
  /\ LocalFields(t, zone).month \in SeqRange(fields.month.values)
  /\ PosixDayClause(fields, LocalFields(t, zone).day, CronDayOfWeek(t, zone))

\* The candidate the last pass of the loop examined, and whether it was kept.
LastExamined == current - SecondsPerMinute
LastKept == Len(occurrences) > 0 /\ occurrences[Len(occurrences)] = LastExamined

\* C3: a candidate minute is kept exactly when its minute, hour and month are
\* in the field sets and the day clause holds: true when both day fields are
\* '*', the restricted field alone when one is, either of them when neither
\* is; the day of the week is taken with 0 = Sunday, so that '* 1-5' keeps
\* Monday to Friday only.
C3_MatchPredicate ==
  (pc = "walk" /\ iterations > 0) =>
    /\ LastKept <=> SpecifiedMatch(parsed.fields, LastExamined, timezone)
    /\ (/\ parsed.fields.dayOfMonth.raw = "*"
        /\ parsed.fields.dayOfWeek.raw = "1-5"
        /\ LastKept) => CronDayOfWeek(LastExamined, timezone) \in 1..5

\* Neither day field is '*' and a candidate was kept on its day of month
\* alone: its day of the week is not in the set.
C3_Witness ==
  /\ pc = "walk"
  /\ iterations > 0
  /\ parsed.fields.dayOfMonth.raw # "*"
  /\ parsed.fields.dayOfWeek.raw # "*"
  /\ LastKept
  /\ ~Includes(parsed.fields.dayOfWeek.values,
               CronDayOfWeek(LastExamined, timezone))

\* C4: the walk examines at most 366 * 24 * 60 candidate minutes; at the
\* ceiling it stops and returns the matches found so far, fewer than count.
C4_Ceiling ==
  /\ iterations <= 366 * 24 * 60
  /\ (pc = "walk" /\ iterations = 366 * 24 * 60) => ~ENABLED WalkStep
  /\ (Returned /\ ~ReturnsEmpty(parsed) /\ Len(result) < count) =>
       /\ iterations = 366 * 24 * 60
       /\ result = occurrences

\* A call that returned at the ceiling with one match of the two asked for.
C4_Witness ==
  /\ Returned
  /\ iterations = 366 * 24 * 60
  /\ Len(result) = 1
  /\ Len(result) < count

(***************************************************************************)
(* Properties of parseField.                                               *)
(***************************************************************************)

\* Every return of the loop model is the value of the operator parseField,
\* and the operator says of no returning call that it loops forever.
FieldModelsAgree ==
  (pc = "done" /\ op = "parseField") =>
     /\ result = parseField(pf.field, FIELDS[pf.def])
     /\ ~FieldDiverges(pf.field, FIELDS[pf.def])

\* C6: parseField terminates on every field text: every pass of a value
\* loop moves its counter on (or ends the loop), a step of 0 counting as 1.
C6_LoopAdvances ==
  [][(pc = "loop" /\ pc' = "loop") => (pf'.i = NaN \/ pf'.i >= pf.i + 1)]_vars

(***************************************************************************)
(* Properties of compare.                                                  *)
(***************************************************************************)

\* C5: no entry point throws on a string input; each returns a value.
C5_NeverThrows == pc # "thrown" /\ pc # "hung"

\* C8: when compare reports same, the two expressions have the same
\* occurrences from the same instant in the same zone.
C8_SameMeansSameSchedule ==
  (/\ pc = "done"
   /\ op = "compare"
   /\ result.valid
   /\ result.same
   /\ cmp.from1 = cmp.from2) => cmp.next1 = cmp.next2

\* C9: compare of a valid expression with itself returns valid: true,
\* same: true and no differences, and so does compare of an alias with its
\* expansion.
C9_CompareWithItself ==
  (/\ op = "compare"
   /\ pc \in {"done", "thrown"}
   /\ \/ cmp.expr1 = cmp.expr2 /\ ~parseDiverges(cmp.expr1) /\ parse(cmp.expr1).valid
      \/ cmp.expr1 = "@hourly" /\ cmp.expr2 = "0 * * * *") =>
     /\ pc = "done"
     /\ result.valid
     /\ result.same
     /\ result.differences = <<>>

(***************************************************************************)
(* Properties of generate.                                                 *)
(***************************************************************************)

\* C7: whenever generate returns success, parsing the expression it
\* returned terminates and reports it valid.
C7_GeneratedIsValid ==
  op = "validate" => (pc = "done" /\ parsed.valid /\ result.valid)

\* The phrase of the table the text matches, and the time of its
\* `at <time>` clause.
MatchedPhrase == DirectIndex(trim(toLowerCase(text)))
ClauseTime == parseTime(MatchAt(trim(toLowerCase(text)))[1])

\* C10: when the text matches a phrase of the table and holds an
\* `at <time>` clause parseTime accepts, generate returns the phrase's
\* template with minute and hour replaced by the time, the other three
\* fields unchanged.
C10_AtTimeOverridesTemplate ==
  (/\ op = "generate"
   /\ pc = "done"
   /\ MatchedPhrase > 0
   /\ MatchAt(trim(toLowerCase(text))) # <<>>
   /\ ClauseTime.ok) =>
     /\ result.success
     /\ split(result.expression, " ") =
          <<toString(ClauseTime.minute), toString(ClauseTime.hour)>> \o
          SubSeq(split(PATTERNS[MatchedPhrase][2], " "), 3, 5)

\* C11: generate called with exactly a phrase of the table succeeds and
\* returns the expression the table maps that phrase to.
C11_TablePhraseGivesItsTemplate ==
  (op = "generate" /\ pc = "done" /\ KeyIndex(PATTERNS, text) > 0) =>
     /\ result.success
     /\ result.expression = PATTERNS[KeyIndex(PATTERNS, text)][2]

\* The examples of the README's Generate section: <<text, expression>>.
ReadmeExamples ==
  << <<"every 5 minutes", "*/5 * * * *">>,
     <<"every monday at 9am", "0 9 * * 1">>,
     <<"first day of month at midnight", "0 0 1 * *">> >>

\* C12: generate returns for each example of the README the expression the
\* README shows.
C12_ReadmeExamples ==
  (op = "generate" /\ pc = "done" /\ KeyIndex(ReadmeExamples, text) > 0) =>
     /\ result.success
     /\ result.expression = ReadmeExamples[KeyIndex(ReadmeExamples, text)][2]

(***************************************************************************)
(* Properties of the converter.                                            *)
(***************************************************************************)

\* The day of the month and the day of the week of a successful toAws or
\* toQuartz result, as texts.
ConvertedDays ==
  IF op = "toAws"
  THEN <<split(result.result, " ")[3], split(result.result, " ")[5]>>
  ELSE <<split(result.result, " ")[4], split(result.result, " ")[6]>>

ConvertedToDays == op \in {"toAws", "toQuartz"} /\ pc = "done" /\ result.success

\* C13: in a successful toAws or toQuartz result, when both day fields of
\* the source are *, the day of the week is ?; when exactly one is *, that
\* one is ?; a field that is not * never becomes ?; the two are never both *.
C13_QuestionMarkRule ==
  ConvertedToDays =>
    LET dom == parsed.fields.dayOfMonth.raw
        dow == parsed.fields.dayOfWeek.raw
    IN  /\ (dom = "*" /\ dow = "*") => ConvertedDays[2] = "?"
        /\ (dom = "*" /\ dow # "*") => ConvertedDays[1] = "?"
        /\ (dom # "*" /\ dow = "*") => ConvertedDays[2] = "?"
        /\ dom # "*" => ConvertedDays[1] = dom
        /\ dow # "*" => ConvertedDays[2] # "?"
        /\ ~(ConvertedDays[1] = "*" /\ ConvertedDays[2] = "*")

C13_Witness ==
  /\ ConvertedToDays
  /\ op = "toAws"
  /\ parsed.fields.dayOfMonth.raw = "*"
  /\ parsed.fields.dayOfWeek.raw = "1-5"
  /\ ConvertedDays[1] = "?"

\* The day-of-week numbers a token of an AWS expression holds, and the
\* weekdays 0 = Sunday .. 6 = Saturday it denotes in AWS numbering.
AwsNumbers(token) == {parseInt(split(token, "-")[k]) : k \in 1..Len(split(token, "-"))}

AwsWeekdays(token) ==
  {n - 1 : n \in Least(AwsNumbers(token))..Greatest(AwsNumbers(token))}

\* C14: every day-of-week number toAws emits for a constrained day of the
\* week lies in 1..7, and the numbers denote, 1 being Sunday, the weekdays
\* of the source expression.
C14_AwsDayOfWeekNumbering ==
  (ConvertedToDays /\ op = "toAws" /\ parsed.fields.dayOfWeek.raw # "*") =>
    LET tokens == split(ConvertedDays[2], ",")
    IN  /\ \A k \in 1..Len(tokens) : AwsNumbers(tokens[k]) \subseteq 1..7
        /\ UNION {AwsWeekdays(tokens[k]) : k \in 1..Len(tokens)} =
             {v % 7 : v \in SeqRange(parsed.fields.dayOfWeek.values)}

\* The fields inside the cron(...) wrapper of the text handed to toCron,
\* none when there is no wrapper.
WrappedFields ==
  IF MatchAwsWrapper(expression) = <<>> THEN <<>>
  ELSE SplitSpaces(trim(MatchAwsWrapper(expression)[1]))

\* A day-of-week token as the claim converts it: a purely numeric token n
\* becomes n - 1, any other token is left as it is.
NumericOnly(token) ==
  IF Len(token) > 0 /\ DigitRun(token, 1) = Len(token)
  THEN toString(parseInt(token) - 1) ELSE token

\* C15: toCron(x, 'aws') succeeds exactly on a cron(...) wrapper around six
\* fields; it then drops the year, turns ? into * in both day fields and
\* converts the day of the week token by token, a purely numeric token n
\* to n - 1, any other token unchanged.
C15_FromAws ==
  (op = "toCron" /\ toLowerCase(text) = "aws" /\ pc = "done") =>
    /\ result.success <=> Len(WrappedFields) = 6
    /\ result.success =>
         result.result =
           join(<<WrappedFields[1], WrappedFields[2],
                  IF WrappedFields[3] = "?" THEN "*" ELSE WrappedFields[3],
                  WrappedFields[4],
                  IF WrappedFields[5] = "?" THEN "*"
                  ELSE join([k \in 1..Len(split(WrappedFields[5], ",")) |->
                               NumericOnly(split(WrappedFields[5], ",")[k])], ",")>>,
                " ")

\* The number of white-space separated fields of a trimmed text.
FieldCount(s) ==
  Cardinality({i \in 1..Len(s) :
                 ~IsSpace(Char(s, i)) /\ (i = 1 \/ IsSpace(Char(s, i - 1)))})

\* The text starts with a token word-word-word that white space follows.
StartsWithDate(s) ==
  LET words == split(SplitSpaces(s)[1], "-")
  IN  /\ Len(SplitSpaces(s)) >= 2
      /\ Len(words) = 3
      /\ \A k \in 1..3 : Len(words[k]) >= 1 /\ WordRun(words[k], 1) = Len(words[k])

\* The prefix cron( of AWS, in any letter case and with white space allowed
\* before the parenthesis.
HasAwsPrefix(s) ==
  /\ StartsWithAt(toLowerCase(s), "cron", 1)
  /\ startsWith(TrimStart(SubSeq(s, 5, Len(s))), "(")

\* The rules of the claim, in order, on a trimmed text.
ClaimedFormat(s) ==
  IF HasAwsPrefix(s) THEN "aws"
  ELSE IF includes(s, "OnCalendar") \/ StartsWithDate(s) THEN "systemd"
  ELSE IF FieldCount(s) = 5 THEN "cron"
  ELSE IF FieldCount(s) \in {6, 7} THEN "quartz"
  ELSE Null

ParsedFields ==
  op = "parse" /\ pc = "done" /\ parsed.error = Undefined /\ ~parsed.isReboot

\* C16: the values of every parsed field are integers within the field's
\* [min, max], strictly ascending (hence without duplicates), whatever the
\* input text; and every well-formed five-field expression is valid.
C16_ValuesAscendingInRange ==
  /\ ParsedFields =>
       \A f \in SeqRange(FIELD_ORDER) :
         /\ \A k \in 1..Len(parsed.fields[f].values) :
              parsed.fields[f].values[k] \in FIELDS[f].min..FIELDS[f].max
         /\ \A k \in 1..(Len(parsed.fields[f].values) - 1) :
              parsed.fields[f].values[k] < parsed.fields[f].values[k + 1]
  /\ (op = "parse" /\ pc = "done" /\ expression \in WellFormedExpressions) =>
       parsed.valid

\* The aliases and their documented expansions: <<alias, expansion>>.
DocumentedAliases ==
  << <<"@yearly", "0 0 1 1 *">>, <<"@annually", "0 0 1 1 *">>,
     <<"@monthly", "0 0 1 * *">>, <<"@weekly", "0 0 * * 0">>,
     <<"@daily", "0 0 * * *">>, <<"@midnight", "0 0 * * *">>,
     <<"@hourly", "0 * * * *">> >>

\* The alias of the expression parsed, in lower case.
ParsedAlias == toLowerCase(trim(expression))

\* C17: a named alias, in any letter case, parses as valid with the value
\* sets of its documented expansion; @reboot yields the sentinel valid,
\* isReboot, fields null; any other text starting with @ is invalid with
\* an 'Unknown alias' error.
C17_Aliases ==
  (op = "parse" /\ pc = "done" /\ startsWith(trim(expression), "@")) =>
    IF ParsedAlias = "@reboot"
    THEN parsed.valid /\ parsed.isReboot /\ parsed.fields = Null
    ELSE IF KeyIndex(DocumentedAliases, ParsedAlias) > 0
    THEN /\ parsed.valid
         /\ \A f \in SeqRange(FIELD_ORDER) :
              parsed.fields[f].values =
                parse(DocumentedAliases[KeyIndex(DocumentedAliases, ParsedAlias)][2])
                  .fields[f].values
    ELSE ~parsed.valid /\ startsWith(parsed.error, "Unknown alias")

C17_Witness ==
  /\ op = "parse"
  /\ pc = "done"
  /\ expression = "@weekly"
  /\ parsed.valid
  /\ parsed.fields.dayOfWeek.values = <<0>>

\* C18: in dayOfWeek a literal 7 becomes 0, alone and as the end of a
\* range: 7 and 0 both give the values [0], a range ending in 7 holds
\* Sunday as 0 and no 7, and nothing is reported out of range.
C18_SevenIsSunday ==
  ParsedFields =>
    /\ parsed.fields.dayOfWeek.raw \in {"7", "0"} =>
         /\ parsed.fields.dayOfWeek.values = <<0>>
         /\ parsed.fields.dayOfWeek.outOfRange = <<>>
    /\ (/\ MatchRange(parsed.fields.dayOfWeek.raw) # <<>>
        /\ parseInt(MatchRange(parsed.fields.dayOfWeek.raw)[2]) = 7
        /\ parseInt(MatchRange(parsed.fields.dayOfWeek.raw)[1]) <= 7) =>
         /\ 0 \in SeqRange(parsed.fields.dayOfWeek.values)
         /\ 7 \notin SeqRange(parsed.fields.dayOfWeek.values)
         /\ parsed.fields.dayOfWeek.outOfRange = <<>>

C18_Witness ==
  /\ ParsedFields
  /\ expression = "0 0 * * 5-7"
  /\ parsed.valid
  /\ parsed.fields.dayOfWeek.values = <<0, 5, 6>>

\* The fields of the parse result that report values out of range, in
\* field order.
FieldsOutOfRange ==
  SelectSeq(FIELD_ORDER, LAMBDA f : parsed.fields[f].outOfRange # <<>>)

\* C19: for an input of five or six fields all five fields are parsed
\* whatever the errors of earlier ones; errors holds one entry per field
\* with out-of-range values, labelled with the field's human name, in field
\* order; and valid holds exactly when there is none.
C19_ErrorsPerField ==
  (ParsedFields /\ ~startsWith(trim(expression), "@")) =>
    /\ \A k \in 1..Len(FIELD_ORDER) :
         parsed.fields[FIELD_ORDER[k]].raw =
           FieldTexts(SplitSpaces(trim(expression)))[k]
    /\ parsed.valid <=> FieldsOutOfRange = <<>>
    /\ ~parsed.valid =>
         /\ Len(parsed.errors) = Len(FieldsOutOfRange)
         /\ \A k \in 1..Len(FieldsOutOfRange) :
              startsWith(parsed.errors[k], FIELD_NAMES[FieldsOutOfRange[k]] \o ":")
    /\ expression \in {"0 25 * * *", "60 * * * *", "0 0 32 * *", "0 0 * 13 *"} =>
         ~parsed.valid
    /\ expression = "61 24 0 13 9" => Len(FieldsOutOfRange) = 5

C19_Witness ==
  /\ ParsedFields
  /\ expression = "61 24 0 13 9"
  /\ ~parsed.valid
  /\ Len(parsed.errors) = 5
  /\ startsWith(parsed.errors[3], "day of month:")

(***************************************************************************)
(* Properties of fromCron and of the converters on @reboot.                *)
(***************************************************************************)

\* A parse result with a schedule: valid and not @reboot.
ValidTimed(p) == p.valid /\ ~p.isReboot

\* The answer of the default case of the switch on the format.
IsUnknownFormat(converted) ==
  /\ ~converted.success
  /\ startsWith(converted.error, "Unknown format: ")

FromCronReturned == op = "fromCron" /\ pc = "done"

\* C21: fromCron, on a valid timed expression, answers each of the six
\* names cron, systemd, aws, github, quartz and jenkins with something other
\* than the unknown-format error; jenkins is answered as quartz is; a name
\* that is none of the six, in any case of letters, is answered with
\* success false and an error.
C21_SixFormats ==
  FromCronReturned =>
    /\ (text \in FORMATS /\ ValidTimed(parse(expression)))
         => ~IsUnknownFormat(result)
    /\ text = "jenkins" => result = fromCron(expression, "quartz")
    /\ toLowerCase(text) \notin FORMATS
         => ~result.success /\ Len(result.error) > 0

\* A converter returned from a call on @reboot.
ConvertedReboot ==
  /\ pc = "done"
  /\ original = None
  /\ op \in ConverterNames
  /\ parsed.valid
  /\ parsed.isReboot

\* C22: on @reboot toAws, toGitHub and toQuartz return success false with
\* an error and toSystemd returns success true with the result '@reboot';
\* fromCron returns what the converter of the format does.
C22_Reboot ==
  /\ ConvertedReboot /\ op # "toSystemd"
       => ~result.success /\ Len(result.error) > 0
  /\ ConvertedReboot /\ op = "toSystemd"
       => result.success /\ result.result = "@reboot"
  /\ (FromCronReturned /\ FromCronParses(text) /\ parse(expression).isReboot)
       => IF toLowerCase(text) = "systemd"
          THEN result.success /\ result.result = "@reboot"
          ELSE ~result.success /\ Len(result.error) > 0

C22_Witness ==
  /\ ConvertedReboot
  /\ op = "toSystemd"
  /\ expression = "@reboot"
  /\ result.result = "@reboot"

(***************************************************************************)
(* Properties of parseTime.                                                *)
(***************************************************************************)

\* The hour of the clock for an hour written with am or pm, or with
\* neither: pm adds 12 to an hour below 12, 12am is 0.
ClockHour(hour, half) ==
  IF toLowerCase(half) = "pm" /\ hour < 12 THEN hour + 12
  ELSE IF toLowerCase(half) = "am" /\ hour = 12 THEN 0
  ELSE hour

\* The time the claim gives for an hour, a minute and a half of the day:
\* null when the hour or the minute is out of range.
ClockTime(hour, minute, half) ==
  IF ClockHour(hour, half) \in 0..23 /\ minute \in 0..59
  THEN [ok |-> TRUE, hour |-> ClockHour(hour, half), minute |-> minute]
  ELSE NoTime

\* The clauses of TimeClauses with a time out of range.
RejectedClauses == {" at 25:00", " at 7:60"}

\* C23: parseTime returns null or an hour in 0..23 with a minute in 0..59;
\* pm adds 12 to hours below 12, 12am is hour 0 and 12pm hour 12, a missing
\* minute part is minute 0, H:MM without am or pm is taken as is,
\* out-of-range and unrecognised texts give null; and generate takes a null
\* time as a clause that did not match.
C23_ParseTime ==
  /\ (op = "parseTime" /\ pc = "done") =>
       /\ result.ok => result.hour \in 0..23 /\ result.minute \in 0..59
       /\ \A h \in ClockHours, m \in ClockMinutes, gap \in ClockGaps,
             half \in ClockHalves :
            text = h[1] \o m[1] \o gap \o half
              => result = ClockTime(h[2], m[2], half)
       /\ text \in OtherTimeTexts => result = NoTime
  /\ (op = "generate" /\ pc = "done") =>
       /\ \A clause \in TimeClauses \ {""} :
            text = "nothing here" \o clause
              => (result.success <=> clause \notin RejectedClauses)
       /\ \A clause \in RejectedClauses :
            text = "on the 15th" \o clause => result.expression = "0 0 15 * *"

C23_Witness ==
  /\ op = "parseTime"
  /\ pc = "done"
  /\ text = "12:30 am"
  /\ result = [ok |-> TRUE, hour |-> 0, minute |-> 30]

(***************************************************************************)
(* Properties of a conversion and back, and of detectFormat on what the    *)
(* converters write.                                                       *)
(***************************************************************************)

\* The value sets of the five fields of a parse result.
ValueSets(p) == [k \in 1..5 |-> SeqRange(p.fields[FIELD_ORDER[k]].values)]

\* toCron returned from the result of the converter to format.
WentBack(format) ==
  /\ op = "toCron"
  /\ pc = "done"
  /\ original # None
  /\ text = format

\* The expression parses to the value sets the original parses to.
SameSchedule(e) ==
  /\ parse(e).valid
  /\ ~parse(e).isReboot
  /\ ValueSets(parse(e)) = ValueSets(parse(original))

\* C26: toCron(toAws(e).result, 'aws') succeeds for a valid timed e and
\* its result parses to the five value sets e parses to.
C26_AwsRoundTrip ==
  (WentBack("aws") /\ ValidTimed(parse(original)))
    => result.success /\ SameSchedule(result.result)

\* C27: toCron(toQuartz(e).result, 'quartz') succeeds for a valid timed e
\* and its result parses to the five value sets e parses to: the weekdays
\* are not shifted.
C27_QuartzRoundTrip ==
  (WentBack("quartz") /\ ValidTimed(parse(original)))
    => result.success /\ SameSchedule(result.result)

\* The format detectFormat is to answer for what the converter to a format
\* wrote: the YAML of GitHub holds a standard cron expression.
OwnFormat(format) == IF format = "github" THEN "cron" ELSE format

\* C29: detectFormat answers aws for the result of toAws, quartz for that
\* of toQuartz, systemd for that of toSystemd and cron for the expression
\* of toGitHub, for every valid timed expression converted.
C29_DetectsOwnOutput ==
  (/\ op = "detectFormat"
   /\ pc = "done"
   /\ original # None
   /\ ValidTimed(parse(original)))
    => result = OwnFormat(text)

(***************************************************************************)
(* Properties of the values of dayOfWeek.                                  *)
(***************************************************************************)

\* C25: in every parse result with fields, whatever the text of the day of
\* the week, dayOfWeek.values holds only 0..6: Sunday is 0 and 7 never
\* appears.
C25_WeekdaysZeroToSix ==
  ParsedFields =>
    \A k \in 1..Len(parsed.fields.dayOfWeek.values) :
      parsed.fields.dayOfWeek.values[k] \in 0..6

(***************************************************************************)
(* Properties of cronMatchesTime.                                          *)
(***************************************************************************)

\* The scheduler kept the minute it examined in this pass of its loop.
KeptCurrent == occurrences' = Append(occurrences, current)

\* C28: cronMatchesTime and the scheduler's test of a candidate are one
\* predicate: in every pass of the loop of getNextOccurrences the minute
\* examined is kept exactly when cronMatchesTime is true of it, a call of
\* cronMatchesTime on a valid timed expression answers what the scheduler's
\* test answers for that minute, and the answer is false for an invalid
\* expression and for @reboot.
C28_SamePredicate ==
  /\ [][WalkStep =>
          (KeptCurrent <=> cronMatchesTime(parsed, LocalFields(current, timezone)))]_vars
  /\ []((op = "cronMatchesTime" /\ pc = "done") =>
          IF ValidTimed(parsed)
          THEN result <=> Matches(parsed.fields, current, timezone)
          ELSE result = FALSE)

C28_Witness ==
  /\ op = "cronMatchesTime"
  /\ pc = "done"
  /\ expression = "0 */6 1 * 1"
  /\ current = 1727654400
  /\ timezone = "UTC"
  /\ result = TRUE

(***************************************************************************)
(* Properties of the daily operations of the free tier.                    *)
(***************************************************************************)

\* The commands the table of the free tier calls unlimited.
Unlimited == {"explain", "validate", "diff"}

\* C24: on the free tier explain, validate and diff are unlimited: whatever
\* the operations counted earlier that day, the check of the limit never
\* refuses an explain, validate or diff of a valid expression.
C24_UnlimitedCommands ==
  [][\A p \in Procs :
       (/\ run[p].pc = "check"
        /\ run[p].command \in Unlimited
        /\ parse(run[p].e).valid
        /\ run'[p].pc = "done")
         => ~run'[p].refused]_vars

\* C30: under every interleaving of the commands' reads and writes of the
\* usage file the count of a day never exceeds dailyOperations and every
\* operation admitted raises the count of its day by one and no other
\* count; a command checked when the count has reached the limit returns
\* code 1 and leaves the file alone; a new day starts from 0.
C30_DailyQuota ==
  /\ [](\A d \in Days : usage[d] <= dailyOperations)
  /\ [][\A p \in Procs :
          IncrementWrite(p) => usage' = [usage EXCEPT ![run[p].key] = @ + 1]]_vars
  /\ [][\A p \in Procs :
          (CheckOperationLimit(p) /\ usage[today] >= dailyOperations)
            => run'[p] = Exited(1, TRUE) /\ usage' = usage]_vars
  /\ [][NewDay => usage'[today'] = 0]_vars

====
